---- MODULE Spec2Model ----
(***************************************************************************)
(* Adaptive personalization engine of Ainia Adventure Stories.             *)
(*                                                                         *)
(*   src/src/ainia/core/multi_question_system.py  3-question story session *)
(*   src/src/ainia/apps/app.py                    the app's session flow   *)
(*   src/src/adaptive_system.py                   long-run child profile   *)
(*   src/src/ainia/core/emotion_branching.py      achievements             *)
(*                                                                         *)
(* Python dicts are functions whose DOMAIN is the set of keys present;     *)
(* dict.get(k, d) is Get(dict, k, d).  Wall-clock values (timestamps,      *)
(* time.time()) are an abstract tick counter.                              *)
(***************************************************************************)
EXTENDS Integers, Sequences, FiniteSets, TLC

VARIABLES
    session,           \* the StorySession of st.session_state.story_session
    showing_feedback,  \* 'last_answer_result' is in st.session_state
    outcome,           \* what the latest call returned or raised
    profile,           \* the ChildProfile
    unlock_events,     \* achievement ids returned so far, in order
    clock,             \* calls made on the profile so far
    profiles,          \* AdaptiveSystemManager.profiles: key -> ChildProfile
    threads            \* the calls in flight on the profile, one per thread

vars ==
    <<session, showing_feedback, outcome, profile, unlock_events, clock,
      profiles, threads>>

\* the state only the manager's store and concurrent callers touch
manager_vars == <<profiles, threads>>

Get(d, k, default) == IF k \in DOMAIN d THEN d[k] ELSE default

Last(s) == s[Len(s)]

\* x in s
InSeq(x, s) == \E k \in DOMAIN s : s[k] = x

\* s[-n:] of Python
Tail_n(s, n) == IF Len(s) <= n THEN s ELSE SubSeq(s, Len(s) - n + 1, Len(s))

Min(a, b) == IF a < b THEN a ELSE b

Max(a, b) == IF a > b THEN a ELSE b

(***************************************************************************)
(* Bounds of the model                                                     *)
(***************************************************************************)
\* questions a direct caller of the library may append to one session
MaxQuestions == 4

\* calls made on the profile
MaxCalls == 6

\* calls made on the profile in a long run of one kind of interaction
MaxLongRunCalls == 32

\* process_interaction_emotions calls of one run of the emotion history
MaxEmotionCalls == 11

\* calls made on the manager's profile store
MaxStoreCalls == 4

\* calls made on the profile while a story session runs
MaxSessionProfileCalls == 2

\* calls made on the interest graph of one profile
MaxInterestCalls == 4

\* calls made on a profile whose learning gaps are identified
MaxGapCalls == 5

\* calls made with the records the enhanced app writes
MaxStoryCalls == 4

(***************************************************************************)
(* multi_question_system.py : the per-session state machine                *)
(***************************************************************************)
SessionDifficultyLevel == {"EASY", "MEDIUM", "HARD"}

Themes == {"dragons", "pirates"}

\* the focus strings of the app's selectbox, without their emoji prefix
LearningFocuses == {"counting and addition", "vocabulary", "problem solving"}

\* "math" in clean_focus.lower() or "counting" in clean_focus.lower()
IsMathFocus(learning_focus) == learning_focus \in {"counting and addition"}

\* answers as typed by the child and as returned by the generation service
UserAnswers == {"5", "7", " Brave"}

CorrectAnswers == {"5.0", "brave"}

\* json.loads keeps the types of the reply: a "correct_answer": 5 comes back
\* as the int 5 and not as the string "5"
NumberAnswer == "5 as int"

ReplyAnswers == CorrectAnswers \cup {NumberAnswer}

\* str(x).strip().lower()
StripLower(a) ==
    CASE a = " Brave" -> "brave"
      [] a = "Any creative answer" -> "any creative answer"
      [] OTHER -> a

\* float(x); the strings float() rejects are outside the domain
FloatOf == [a \in {"5", "5.0", "7"} |-> IF a = "7" THEN 7 ELSE 5]


\* a in b, for the cleaned strings of the model
IsSubstring(a, b) ==
    \/ a = b
    \/ <<a, b>> \in {<<"5", "5.0">>}

_check_answer(user_answer, correct_answer, learning_focus) ==
    IF IsMathFocus(learning_focus)
    THEN IF user_answer \in DOMAIN FloatOf /\ correct_answer \in DOMAIN FloatOf
         THEN FloatOf[user_answer] = FloatOf[correct_answer]
         ELSE user_answer = correct_answer
    ELSE IsSubstring(user_answer, correct_answer)
            \/ IsSubstring(correct_answer, user_answer)

adjust_difficulty_q2(current_level, was_correct, question_number) ==
    IF was_correct
    THEN IF current_level = "EASY" THEN "MEDIUM"
         ELSE IF current_level = "MEDIUM" /\ question_number < 2 THEN "HARD"
         ELSE current_level
    ELSE IF current_level = "HARD" THEN "MEDIUM"
         ELSE IF current_level = "MEDIUM" THEN "EASY"
         ELSE current_level

\* adjust_difficulty that does not go below MEDIUM once it is reached
adjust_difficulty_floor_medium(current_level, was_correct, question_number) ==
    IF was_correct
    THEN IF current_level = "EASY" THEN "MEDIUM"
         ELSE IF current_level = "MEDIUM" /\ question_number < 3 THEN "HARD"
         ELSE current_level
    ELSE IF current_level = "HARD" THEN "MEDIUM"
         ELSE current_level

adjust_difficulty(current_level, was_correct, question_number) ==
    IF was_correct
    THEN IF current_level = "EASY" THEN "MEDIUM"
         ELSE IF current_level = "MEDIUM" /\ question_number < 3 THEN "HARD"
         ELSE current_level
    ELSE IF current_level = "HARD" THEN "MEDIUM"
         ELSE IF current_level = "MEDIUM" THEN "EASY"
         ELSE current_level

\* create_story_session that starts above EASY
create_story_session_medium(theme, learning_focus) ==
    [theme            |-> theme,
     learning_focus   |-> learning_focus,
     current_question |-> 0,
     difficulty_level |-> "MEDIUM",
     story_parts      |-> <<>>,
     questions        |-> <<>>,
     question_results |-> <<>>,
     status           |-> "in_progress"]

create_story_session(theme, learning_focus) ==
    [theme            |-> theme,
     learning_focus   |-> learning_focus,
     current_question |-> 0,
     difficulty_level |-> "EASY",
     story_parts      |-> <<>>,
     questions        |-> <<>>,
     question_results |-> <<>>,
     status           |-> "in_progress"]

is_complete(s) == Len(s.question_results) >= 3

\* the question dict of _generate_fallback_story_part
FallbackQuestion(s, question_num) ==
    [correct_answer   |-> "Any creative answer",
     difficulty_level |-> s.difficulty_level,
     part_number      |-> question_num]

\* What generate_next_story_part can return for the session: the parsed
\* reply of the generation service, or the fallback part when the call
\* raises or its reply does not parse.  <<story_part, question_data>>
generate_next_story_part(s) ==
    LET question_num == s.current_question + 1
    IN  { <<"generated", [correct_answer   |-> a,
                          difficulty_level |-> s.difficulty_level,
                          part_number      |-> question_num]>>
            : a \in ReplyAnswers }
        \cup { <<"fallback", FallbackQuestion(s, question_num)>> }

\* the two tests that close process_answer, on the number of results
AdjustsAfterLast(n) == n <= 3

ShouldAdjust(n) == n < 3

MarksCompleted_late(n) == n > 3

MarksCompleted(n) == n >= 3

\* process_answer that records the difficulty after the adjustment
process_answer_records_after(s, user_answer) ==
    LET current_question_index == Len(s.question_results)
        current_question == s.questions[current_question_index + 1]
        correct_answer == StripLower(current_question.correct_answer)
        user_answer_clean == StripLower(user_answer)
        is_correct == _check_answer(user_answer_clean, correct_answer,
                                    s.learning_focus)
        new_level ==
            IF ShouldAdjust(current_question_index + 1)
            THEN adjust_difficulty(s.difficulty_level, is_correct,
                                   current_question_index + 1)
            ELSE s.difficulty_level
        result == [question_number  |-> current_question_index + 1,
                   user_answer      |-> user_answer,
                   correct_answer   |-> current_question.correct_answer,
                   is_correct       |-> is_correct,
                   difficulty_level |-> new_level]
        results == Append(s.question_results, result)
    IN  [s EXCEPT
           !.question_results = results,
           !.current_question = Len(results),
           !.difficulty_level =
               IF ShouldAdjust(Len(results))
               THEN adjust_difficulty(s.difficulty_level, is_correct, Len(results))
               ELSE s.difficulty_level,
           !.status = IF MarksCompleted(Len(results)) THEN "completed" ELSE s.status]

\* process_answer when session.questions[len(question_results)] exists
process_answer(s, user_answer) ==
    LET current_question_index == Len(s.question_results)
        current_question == s.questions[current_question_index + 1]
        correct_answer == StripLower(current_question.correct_answer)
        user_answer_clean == StripLower(user_answer)
        is_correct == _check_answer(user_answer_clean, correct_answer,
                                    s.learning_focus)
        result == [question_number  |-> current_question_index + 1,
                   user_answer      |-> user_answer,
                   correct_answer   |-> current_question.correct_answer,
                   is_correct       |-> is_correct,
                   difficulty_level |-> s.difficulty_level]
        results == Append(s.question_results, result)
    IN  [s EXCEPT
           !.question_results = results,
           !.current_question = Len(results),
           !.difficulty_level =
               IF ShouldAdjust(Len(results))
               THEN adjust_difficulty(s.difficulty_level, is_correct, Len(results))
               ELSE s.difficulty_level,
           !.status = IF MarksCompleted(Len(results)) THEN "completed" ELSE s.status]

\* session.questions[current_question_index] raises IndexError
RaisesIndexError(s) == Len(s.question_results) >= Len(s.questions)

\* current_question.get("correct_answer", "").strip() raises AttributeError:
\* an int has no strip()
RaisesAttributeError(s) ==
    /\ ~RaisesIndexError(s)
    /\ s.questions[Len(s.question_results) + 1].correct_answer = NumberAnswer

NoCall == [op |-> "none", error |-> "none"]

(***************************************************************************)
(* adaptive_system.py : the long-run child profile                         *)
(*                                                                         *)
(* Python floats that only accumulate (EMA metrics, skill levels, interest *)
(* weights) are fixed-point numbers in units of 1/FP.  The engagement      *)
(* level, which the code compares with a threshold it can hit exactly, is  *)
(* computed with the rounding of IEEE doubles (see                         *)
(* _calculate_engagement_level).                                           *)
(***************************************************************************)
FP == 10 ^ 6

\* a dict value that is a number, and one that is a string
Num(n) == <<"number", n>>

Str(x) == <<"str", x>>

IsNumber(v) == v[1] = "number"

HasAttr(obj, attr) == attr \in DOMAIN obj

SetAttr(obj, attr, value) ==
    [k \in DOMAIN obj \cup {attr} |-> IF k = attr THEN value ELSE obj[k]]

\* str.lower() on the learning_focus strings and child names of the model
Lower(x) ==
    CASE x = "Math" -> "math"
      [] x \in {"Emma", "EMMA"} -> "emma"
      [] x = "Liam" -> "liam"
      [] x = "Vocabulary and Math problems" -> "vocabulary and math problems"
      [] OTHER -> x

\* 'math' in x, 'vocabulary' in x, 'problem' in x
ContainsMath(x) == x \in {"math", "vocabulary and math problems"}

ContainsVocabulary(x) == x \in {"vocabulary", "vocabulary and math problems"}

ContainsProblem(x) == x \in {"problem_solving", "vocabulary and math problems"}

LearningMetrics ==
    [comprehension_score   |-> 0,
     engagement_level      |-> 0,
     response_time_avg     |-> 0,
     success_rate          |-> 0,
     vocabulary_level      |-> 1 * FP,
     math_level            |-> 1 * FP,
     problem_solving_level |-> 1 * FP]

\* ChildProfile as get_or_create_profile constructs it
ChildProfile(now) ==
    [learning_style      |-> "mixed",
     difficulty_level    |-> 1,
     learning_metrics    |-> LearningMetrics,
     interaction_history |-> <<>>,
     achievements        |-> <<>>,
     last_updated        |-> now]

\* DynamicDifficultyAdjuster.difficulty_thresholds, in percent and seconds
success_rate_up == 85

success_rate_down == 60

response_time_threshold == 30

engagement_threshold == 70

RECURSIVE SumSeq(_)
SumSeq(s) == IF s = <<>> THEN 0 ELSE s[1] + SumSeq(Tail(s))

Count(s, P(_)) == Cardinality({k \in DOMAIN s : P(s[k])})

\* successes / len(interactions), as <<numerator, denominator>>
_calculate_success_rate(interactions) ==
    IF interactions = <<>> THEN <<1, 2>>
    ELSE <<Count(interactions, LAMBDA i : Get(i, "correct", FALSE)),
           Len(interactions)>>

\* sum(times) raises TypeError when a response_time is not a number
AvgResponseTimeRaises(interactions) ==
    \E k \in DOMAIN interactions :
        ~IsNumber(Get(interactions[k], "response_time", Num(15)))

\* sum(times) / len(times), as <<numerator, denominator>>
_calculate_avg_response_time(interactions) ==
    IF interactions = <<>> THEN <<15, 1>>
    ELSE <<SumSeq([k \in DOMAIN interactions |->
                      Get(interactions[k], "response_time", Num(15))[2]]),
           Len(interactions)>>

\* the score of one interaction, in tenths; each of the sums 0.4, 0.3,
\* 0.6, 0.7, 1.0 is the double nearest to the decimal
EngagementScore_story_completed(interaction) ==
      (IF Get(interaction, "story_completed", FALSE) THEN 4 ELSE 0)
    + (IF Get(interaction, "response_quality", 0) > 5 THEN 3 ELSE 0)
    + (IF Get(interaction, "session_duration", 0) > 300 THEN 3 ELSE 0)

EngagementScore(interaction) ==
      (IF Get(interaction, "completed", FALSE) THEN 4 ELSE 0)
    + (IF Get(interaction, "response_quality", 0) > 5 THEN 3 ELSE 0)
    + (IF Get(interaction, "session_duration", 0) > 300 THEN 3 ELSE 0)

\* sum(engagement_scores) / len(engagement_scores) in IEEE doubles, as
\* <<numerator, denominator, ulp>>: the value is numerator/denominator
\* tenths, and ulp is the sign of the rounding error of the double.  The
\* quotient is the nearest double of the exact mean except for three scores
\* that add up to 2.1: 1.4 + 0.7 gives 2.0999999999999996 and a mean of
\* 0.6999999999999998, any other order gives 2.1 and 2.1 / 3 gives
\* 0.7000000000000001.
_calculate_engagement_level(interactions) ==
    IF interactions = <<>> THEN <<5, 1, 0>>
    ELSE LET scores == [k \in DOMAIN interactions |->
                           EngagementScore(interactions[k])]
             total == SumSeq(scores)
         IN  <<total, Len(scores),
               IF Len(scores) = 3 /\ total = 21
               THEN IF scores[1] + scores[2] = 14 /\ scores[3] = 7
                    THEN -1 ELSE 1
               ELSE 0>>

\* comparisons of a computed engagement level with a threshold in percent
EngagementAbove(e, percent) ==
    \/ e[1] * 10 > percent * e[2]
    \/ e[1] * 10 = percent * e[2] /\ e[3] > 0

EngagementBelow(e, percent) ==
    \/ e[1] * 10 < percent * e[2]
    \/ e[1] * 10 = percent * e[2] /\ e[3] < 0

analyze_performance(p, recent_interactions) ==
    IF recent_interactions = <<>> THEN p.difficulty_level
    ELSE LET recent_success_rate ==
                 _calculate_success_rate(Tail_n(recent_interactions, 5))
             avg_response_time ==
                 _calculate_avg_response_time(Tail_n(recent_interactions, 5))
             engagement_level ==
                 _calculate_engagement_level(Tail_n(recent_interactions, 3))
             current_level == p.difficulty_level
         IN  IF /\ recent_success_rate[1] * 100 > success_rate_up * recent_success_rate[2]
                /\ EngagementAbove(engagement_level, engagement_threshold)
                /\ avg_response_time[1] < response_time_threshold * avg_response_time[2]
             THEN Min(4, current_level + 1)
             ELSE IF \/ recent_success_rate[1] * 100 < success_rate_down * recent_success_rate[2]
                     \/ EngagementBelow(engagement_level, engagement_threshold)
                  THEN Max(1, current_level - 1)
                  ELSE current_level

\* keyword hits of LearningStyleDetector in one lower-cased response:
\* <<visual, auditory, kinesthetic>>
StyleHits(response) ==
    CASE response = "i see the picture" -> <<2, 0, 0>>
      [] response = "i hear music"      -> <<0, 2, 0>>
      [] OTHER                          -> <<0, 0, 0>>

LowerResponse(x) == IF x = "I see the picture" THEN "i see the picture" ELSE x

detect_learning_style(p) ==
    IF p.interaction_history = <<>> THEN "mixed"
    ELSE LET window == Tail_n(p.interaction_history, 10)
             hits(j) == SumSeq([k \in DOMAIN window |->
                          StyleHits(LowerResponse(Get(window[k], "response", "")))[j]])
             visual_score == hits(1)
             auditory_score == hits(2)
             kinesthetic_score == hits(3)
             max_score == Max(visual_score, Max(auditory_score, kinesthetic_score))
             total_score == visual_score + auditory_score + kinesthetic_score
             \* max(scores, key=scores.get): the first maximal key
             dominant_style ==
                 IF visual_score = max_score THEN "visual"
                 ELSE IF auditory_score = max_score THEN "auditory"
                 ELSE "kinesthetic"
         IN  IF max_score = 0 THEN "mixed"
             ELSE IF 2 * max_score < total_score THEN "mixed"
             ELSE dominant_style

interest_decay_factor == 95

\* profile.interest_graph is a dict: its keys keep the order of their
\* insertion, which the model holds beside the weights
InterestGraphKeys(p) ==
    IF HasAttr(p, "interest_graph_keys") THEN p.interest_graph_keys ELSE <<>>

\* profile.interest_graph = graph, theme being the key just written
SetInterestGraph(p, graph, theme) ==
    SetAttr(SetAttr(p, "interest_graph", graph), "interest_graph_keys",
            IF InSeq(theme, InterestGraphKeys(p)) THEN InterestGraphKeys(p)
            ELSE Append(InterestGraphKeys(p), theme))

\* update_interest_graph with the two blending factors exchanged
update_interest_graph_swapped(p, theme, engagement_score) ==
    LET graph == IF HasAttr(p, "interest_graph") THEN p.interest_graph
                 ELSE <<>>
        current_weight == Get(graph, theme, 0)
        new_weight == (current_weight * 2) \div 10
                        + (engagement_score * (FP \div 10) * 8) \div 10
    IN  SetInterestGraph(p,
            [t \in DOMAIN graph \cup {theme} |->
                IF t = theme THEN new_weight
                ELSE (graph[t] * interest_decay_factor) \div 100], theme)

\* update_interest_graph without the decay of the other themes
update_interest_graph_no_decay(p, theme, engagement_score) ==
    LET graph == IF HasAttr(p, "interest_graph") THEN p.interest_graph
                 ELSE <<>>
        current_weight == Get(graph, theme, 0)
        new_weight == (current_weight * 8) \div 10
                        + (engagement_score * (FP \div 10) * 2) \div 10
    IN  SetInterestGraph(p,
            [t \in DOMAIN graph \cup {theme} |->
                IF t = theme THEN new_weight ELSE graph[t]], theme)

\* update_interest_graph; engagement_score in tenths, weights in 1/FP
update_interest_graph(p, theme, engagement_score) ==
    LET graph == IF HasAttr(p, "interest_graph") THEN p.interest_graph
                 ELSE <<>>
        current_weight == Get(graph, theme, 0)
        new_weight == (current_weight * 8) \div 10
                        + (engagement_score * (FP \div 10) * 2) \div 10
    IN  SetInterestGraph(p,
            [t \in DOMAIN graph \cup {theme} |->
                IF t = theme THEN new_weight
                ELSE (graph[t] * interest_decay_factor) \div 100], theme)

\* min(4, level + 0.1) without the cap
RaiseSkill_uncapped(level) == level + FP \div 10

\* min(4, level + 0.1)
RaiseSkill(level) == Min(4 * FP, level + FP \div 10)

\* the if / elif chain with the vocabulary test first
SkillToRaise_vocabulary_first(learning_focus) ==
    IF ContainsVocabulary(learning_focus) THEN "vocabulary_level"
    ELSE IF ContainsMath(learning_focus) THEN "math_level"
    ELSE IF ContainsProblem(learning_focus) THEN "problem_solving_level"
    ELSE "none"

\* the if / elif chain on the lower-cased learning_focus: the metric it
\* picks, "none" when no keyword occurs
SkillToRaise(learning_focus) ==
    IF ContainsMath(learning_focus) THEN "math_level"
    ELSE IF ContainsVocabulary(learning_focus) THEN "vocabulary_level"
    ELSE IF ContainsProblem(learning_focus) THEN "problem_solving_level"
    ELSE "none"

\* _update_learning_metrics: the profile it leaves and the error it raises
_update_learning_metrics(p, interaction_data) ==
    LET m0 == p.learning_metrics
        m1 == IF "correct" \in DOMAIN interaction_data
              THEN [m0 EXCEPT !.success_rate =
                        (@ * 9) \div 10
                          + (IF interaction_data.correct THEN FP ELSE 0) \div 10]
              ELSE m0
        bad_response_time ==
            /\ "response_time" \in DOMAIN interaction_data
            /\ ~IsNumber(interaction_data.response_time)
        m2 == IF "response_time" \in DOMAIN interaction_data
              THEN [m1 EXCEPT !.response_time_avg =
                        (@ * 8) \div 10
                          + (interaction_data.response_time[2] * FP * 2) \div 10]
              ELSE m1
        m3 == IF "comprehension_score" \in DOMAIN interaction_data
              THEN [m2 EXCEPT !.comprehension_score =
                        (@ * 8) \div 10
                          + (interaction_data.comprehension_score * (FP \div 10) * 2) \div 10]
              ELSE m2
        m4 == IF "engagement_score" \in DOMAIN interaction_data
              THEN [m3 EXCEPT !.engagement_level =
                        (@ * 8) \div 10
                          + (interaction_data.engagement_score * (FP \div 10) * 2) \div 10]
              ELSE m3
        learning_focus == Lower(Get(interaction_data, "learning_focus", ""))
        m5 == IF /\ Get(interaction_data, "correct", FALSE)
                 /\ SkillToRaise(learning_focus) # "none"
              THEN [m4 EXCEPT ![SkillToRaise(learning_focus)] = RaiseSkill(@)]
              ELSE m4
    IN  IF bad_response_time
        THEN [profile |-> [p EXCEPT !.learning_metrics = m1], error |-> "TypeError"]
        ELSE [profile |-> [p EXCEPT !.learning_metrics = m5], error |-> "none"]

\* update_profile_from_interaction, statement by statement: the profile it
\* leaves behind and the exception it raises, if any
update_profile_from_interaction(p, interaction_data, now) ==
    LET p1 == [p EXCEPT !.interaction_history = Append(@, interaction_data)]
        r2 == _update_learning_metrics(p1, interaction_data)
        p2 == r2.profile
        p3 == [p2 EXCEPT !.difficulty_level =
                  analyze_performance(p2, p2.interaction_history)]
        p4 == [p3 EXCEPT !.learning_style = detect_learning_style(p3)]
        engagement_score == Get(interaction_data, "engagement_score", 5)
        theme == Get(interaction_data, "theme", "unknown")
        p5 == update_interest_graph(p4, theme, engagement_score)
        p6 == [p5 EXCEPT !.last_updated = now]
    IN  IF r2.error # "none" THEN r2
        ELSE IF AvgResponseTimeRaises(Tail_n(p2.interaction_history, 5))
        THEN [profile |-> p2, error |-> "TypeError"]
        ELSE [profile |-> p6, error |-> "none"]

\* the statements of update_profile_from_interaction that follow
\* _update_learning_metrics, for interactions whose response times are
\* numbers: difficulty, learning style, interest graph, timestamp
AfterLearningMetrics(p2, interaction_data, now) ==
    LET p3 == [p2 EXCEPT !.difficulty_level =
                  analyze_performance(p2, p2.interaction_history)]
        p4 == [p3 EXCEPT !.learning_style = detect_learning_style(p3)]
        p5 == update_interest_graph(p4,
                  Get(interaction_data, "theme", "unknown"),
                  Get(interaction_data, "engagement_score", 5))
    IN  [p5 EXCEPT !.last_updated = now]

(***************************************************************************)
(* emotion_branching.py : AchievementSystem                                *)
(***************************************************************************)
\* the keys of achievement_definitions, in insertion order
AchievementIds ==
    <<"first_story_complete", "math_master_beginner", "vocabulary_builder",
      "problem_solver", "story_enthusiast", "theme_explorer", "quick_thinker",
      "creative_responses", "question_asker", "never_give_up",
      "challenge_seeker", "improvement_champion">>

InitialAchievementStats ==
    [stories_completed        |-> 0,
     math_problems_solved     |-> 0,
     vocabulary_words_learned |-> 0,
     consecutive_correct      |-> 0,
     current_streak           |-> 0,
     themes_explored          |-> {},
     quick_responses          |-> 0,
     creative_responses       |-> 0,
     questions_asked          |-> 0,
     challenges_overcome      |-> 0,
     session_dates            |-> <<>>]

\* a reply that holds every keyword of EmotionState.EXCITED
ExcitedText == "wow!! amazing awesome cool yes i love it fantastic"

\* a creative indicator occurs in response.lower(), or len(response) > 30
_is_creative_response(response) ==
    response \in {"maybe the dragon could fly over the mountain", ExcitedText}

\* '?' in response
HasQuestionMark(response) == response \in {"why?"}

\* 'math' in learning_focus: no lower-casing here
ContainsMathCaseSensitive(x) == x \in {"math", "vocabulary and math problems"}

\* time.strftime('%Y-%m-%d'): every call of a run falls on the same day
Today == "today"

\* _update_achievement_stats that counts a correct answer after a wrong one
\* as a challenge overcome
_update_achievement_stats_overcoming(p, interaction_data) ==
    LET p0 == IF HasAttr(p, "achievement_stats") THEN p
              ELSE SetAttr(p, "achievement_stats", InitialAchievementStats)
        s0 == p0.achievement_stats
        s1 == IF Get(interaction_data, "story_completed", FALSE)
              THEN [s0 EXCEPT !.stories_completed = @ + 1] ELSE s0
        s2 == IF Get(interaction_data, "correct", FALSE)
              THEN [s1 EXCEPT
                      !.current_streak = @ + 1,
                      !.challenges_overcome =
                          IF s1.current_streak = 0 THEN @ + 1 ELSE @,
                      !.math_problems_solved =
                          IF ContainsMathCaseSensitive(
                                 Get(interaction_data, "learning_focus", ""))
                          THEN @ + 1 ELSE @]
              ELSE [s1 EXCEPT !.current_streak = 0]
        s3 == IF Get(interaction_data, "new_words_learned", 0) > 0
              THEN [s2 EXCEPT !.vocabulary_words_learned =
                                  @ + interaction_data.new_words_learned]
              ELSE s2
        theme == Get(interaction_data, "theme", "")
        s4 == IF theme # "" THEN [s3 EXCEPT !.themes_explored = @ \cup {theme}]
              ELSE s3
        s5 == IF Get(interaction_data, "response_time", Num(15))[2] < 10
              THEN [s4 EXCEPT !.quick_responses = @ + 1] ELSE s4
        s6 == IF _is_creative_response(Get(interaction_data, "response", ""))
              THEN [s5 EXCEPT !.creative_responses = @ + 1] ELSE s5
        s7 == IF HasQuestionMark(Get(interaction_data, "response", ""))
              THEN [s6 EXCEPT !.questions_asked = @ + 1] ELSE s6
        s8 == IF ~InSeq(Today, s7.session_dates)
              THEN [s7 EXCEPT !.session_dates = Append(@, Today)] ELSE s7
    IN  [p0 EXCEPT !.achievement_stats = s8]

_update_achievement_stats(p, interaction_data) ==
    LET p0 == IF HasAttr(p, "achievement_stats") THEN p
              ELSE SetAttr(p, "achievement_stats", InitialAchievementStats)
        s0 == p0.achievement_stats
        s1 == IF Get(interaction_data, "story_completed", FALSE)
              THEN [s0 EXCEPT !.stories_completed = @ + 1] ELSE s0
        s2 == IF Get(interaction_data, "correct", FALSE)
              THEN [s1 EXCEPT
                      !.current_streak = @ + 1,
                      !.math_problems_solved =
                          IF ContainsMathCaseSensitive(
                                 Get(interaction_data, "learning_focus", ""))
                          THEN @ + 1 ELSE @]
              ELSE [s1 EXCEPT !.current_streak = 0]
        s3 == IF Get(interaction_data, "new_words_learned", 0) > 0
              THEN [s2 EXCEPT !.vocabulary_words_learned =
                                  @ + interaction_data.new_words_learned]
              ELSE s2
        theme == Get(interaction_data, "theme", "")
        s4 == IF theme # "" THEN [s3 EXCEPT !.themes_explored = @ \cup {theme}]
              ELSE s3
        s5 == IF Get(interaction_data, "response_time", Num(15))[2] < 10
              THEN [s4 EXCEPT !.quick_responses = @ + 1] ELSE s4
        s6 == IF _is_creative_response(Get(interaction_data, "response", ""))
              THEN [s5 EXCEPT !.creative_responses = @ + 1] ELSE s5
        s7 == IF HasQuestionMark(Get(interaction_data, "response", ""))
              THEN [s6 EXCEPT !.questions_asked = @ + 1] ELSE s6
        s8 == IF ~InSeq(Today, s7.session_dates)
              THEN [s7 EXCEPT !.session_dates = Append(@, Today)] ELSE s7
    IN  [p0 EXCEPT !.achievement_stats = s8]

_check_improvement_trend(p) ==
    IF Len(p.interaction_history) < 10 THEN FALSE
    ELSE LET is_ok(i) == Get(i, "correct", FALSE)
             recent_success == Count(Tail_n(p.interaction_history, 5), is_ok)
             early_success == Count(SubSeq(p.interaction_history, 1, 5), is_ok)
         IN  recent_success > early_success

_check_achievement_criteria(achievement_id, p) ==
    IF ~HasAttr(p, "achievement_stats") THEN FALSE
    ELSE LET stats == p.achievement_stats
         IN  CASE achievement_id = "first_story_complete" ->
                    stats.stories_completed >= 1
               [] achievement_id = "math_master_beginner" ->
                    stats.math_problems_solved >= 5
               [] achievement_id = "vocabulary_builder" ->
                    stats.vocabulary_words_learned >= 10
               [] achievement_id = "problem_solver" ->
                    /\ stats.stories_completed >= 3
                    /\ p.learning_metrics.success_rate * 10 > 8 * FP
               [] achievement_id = "story_enthusiast" ->
                    stats.stories_completed >= 10
               [] achievement_id = "theme_explorer" ->
                    Cardinality(stats.themes_explored) >= 3
               [] achievement_id = "quick_thinker" ->
                    stats.quick_responses >= 5
               [] achievement_id = "creative_responses" ->
                    stats.creative_responses >= 3
               [] achievement_id = "question_asker" ->
                    stats.questions_asked >= 5
               [] achievement_id = "never_give_up" ->
                    stats.challenges_overcome >= 3
               [] achievement_id = "challenge_seeker" ->
                    p.difficulty_level >= 3
               [] achievement_id = "improvement_champion" ->
                    /\ Len(p.interaction_history) >= 10
                    /\ _check_improvement_trend(p)
               [] OTHER -> FALSE

\* check_for_new_achievements with the 'not in profile.achievements' test
\* left out
check_for_new_achievements_unguarded(p, interaction_data) ==
    LET p1 == _update_achievement_stats(p, interaction_data)
        new_achievements ==
            SelectSeq(AchievementIds,
                      LAMBDA id : _check_achievement_criteria(id, p1))
    IN  [profile |-> [p1 EXCEPT !.achievements = @ \o new_achievements],
         new_achievements |-> new_achievements]

\* check_for_new_achievements with the predicates evaluated before the
\* counters are updated
check_for_new_achievements_stale(p, interaction_data) ==
    LET p1 == _update_achievement_stats(p, interaction_data)
        new_achievements ==
            SelectSeq(AchievementIds,
                      LAMBDA id : /\ ~InSeq(id, p.achievements)
                                  /\ _check_achievement_criteria(id, p))
    IN  [profile |-> [p1 EXCEPT !.achievements = @ \o new_achievements],
         new_achievements |-> new_achievements]

\* check_for_new_achievements: the profile it leaves and the ids of the
\* Achievement records it returns.  No predicate reads profile.achievements,
\* so the loop appends exactly the ids it selects, in catalogue order.
check_for_new_achievements(p, interaction_data) ==
    LET p1 == _update_achievement_stats(p, interaction_data)
        new_achievements ==
            SelectSeq(AchievementIds,
                      LAMBDA id : /\ ~InSeq(id, p1.achievements)
                                  /\ _check_achievement_criteria(id, p1))
    IN  [profile |-> [p1 EXCEPT !.achievements = @ \o new_achievements],
         new_achievements |-> new_achievements]

(***************************************************************************)
(* emotion_branching.py : EmotionDetector, EmotionAdaptiveManager          *)
(***************************************************************************)
\* the keys of emotion_indicators, in insertion order
\* the members of EmotionState that emotion_indicators is keyed by, named
\* as in the enum
EmotionStates == <<"EXCITED", "CURIOUS", "CONFIDENT", "FRUSTRATED", "BORED">>

\* EmotionState.X.value
EmotionValue(emotion_state) ==
    CASE emotion_state = "EXCITED"    -> "excited"
      [] emotion_state = "CURIOUS"    -> "curious"
      [] emotion_state = "CONFIDENT"  -> "confident"
      [] emotion_state = "FRUSTRATED" -> "frustrated"
      [] emotion_state = "BORED"      -> "bored"
      [] emotion_state = "NEUTRAL"    -> "neutral"

\* sum(1 for keyword in indicators['keywords'] if keyword in response_text)
KeywordCount(emotion, response_text) ==
    CASE emotion = "EXCITED" /\ response_text = ExcitedText -> 8
      [] emotion = "CURIOUS" /\ response_text = "why?"      -> 2
      [] OTHER                                              -> 0

\* len(indicators['keywords'])
KeywordTotal(emotion) ==
    CASE emotion = "EXCITED" -> 8
      [] emotion = "CURIOUS" -> 7
      [] OTHER               -> 6

\* indicators['response_patterns']
ResponsePatterns(emotion) ==
    CASE emotion = "EXCITED" ->
           <<"multiple_exclamations", "long_responses", "immediate_response">>
      [] emotion = "CURIOUS" -> <<"questions", "exploration_requests">>
      [] emotion = "CONFIDENT" ->
           <<"quick_correct_answers", "detailed_responses">>
      [] emotion = "FRUSTRATED" ->
           <<"slow_response", "short_answers", "repeated_errors">>
      [] emotion = "BORED" -> <<"minimal_responses", "declining_engagement">>

\* indicators['threshold'], in tenths
EmotionThreshold(emotion) ==
    CASE emotion \in {"EXCITED", "FRUSTRATED"} -> 7
      [] emotion \in {"CURIOUS", "BORED"}      -> 6
      [] emotion = "CONFIDENT"                 -> 8

\* response_text.count('!')
ExclamationCount(response_text) == IF response_text = ExcitedText THEN 2 ELSE 0

\* len(response_text)
TextLen(response_text) ==
    CASE response_text = ""                  -> 0
      [] response_text = "5"                 -> 1
      [] response_text = "why?"              -> 4
      [] response_text = "i hear music"      -> 12
      [] response_text = "I see the picture" -> 17
      [] response_text = "maybe the dragon could fly over the mountain" -> 44
      [] response_text = ExcitedText         -> 50

\* emotion scores are exact multiples of 1 / EmotionScale
EmotionScale == 210000

\* _analyze_response_patterns, in tenths
_analyze_response_patterns(interaction_data, patterns) ==
    LET response_text == Get(interaction_data, "response", "")
        response_time == Get(interaction_data, "response_time", Num(15))[2]
        is_correct == Get(interaction_data, "correct", FALSE)
        add(pattern) ==
            CASE pattern = "multiple_exclamations"
                   /\ ExclamationCount(response_text) > 1 -> 3
              [] pattern = "long_responses"
                   /\ TextLen(response_text) > 50 -> 2
              [] pattern = "immediate_response" /\ response_time < 5 -> 3
              [] pattern = "questions"
                   /\ HasQuestionMark(response_text) -> 4
              [] pattern = "quick_correct_answers"
                   /\ is_correct /\ response_time < 10 -> 4
              [] pattern = "slow_response" /\ response_time > 30 -> 3
              [] pattern = "short_answers"
                   /\ TextLen(response_text) < 10 -> 2
              [] pattern = "minimal_responses"
                   /\ TextLen(response_text) < 5 -> 4
              [] OTHER -> 0
    IN  Min(10, SumSeq([k \in DOMAIN patterns |-> add(patterns[k])]))

\* _apply_contextual_adjustments: the momentum of the last emotion, then
\* the performance context.  'recent_emotion in emotion_scores' compares
\* the last element of the history with the EmotionState keys.
_apply_contextual_adjustments(emotion_scores, interaction_data, history) ==
    LET boosted(e) ==
            IF history # <<>> /\ Last(history) = e
            THEN (emotion_scores[e] * 12) \div 10 ELSE emotion_scores[e]
        is_correct == Get(interaction_data, "correct", FALSE)
    IN  [e \in DOMAIN emotion_scores |->
            CASE is_correct /\ e = "CONFIDENT"   -> (boosted(e) * 13) \div 10
              [] is_correct /\ e = "EXCITED"     -> (boosted(e) * 11) \div 10
              [] is_correct /\ e = "FRUSTRATED"  -> (boosted(e) * 7) \div 10
              [] ~is_correct /\ e = "FRUSTRATED" -> (boosted(e) * 12) \div 10
              [] ~is_correct /\ e = "CONFIDENT"  -> (boosted(e) * 6) \div 10
              [] OTHER                           -> boosted(e)]

\* max(emotion_scores, key=emotion_scores.get): the first maximal key
DominantEmotion(emotion_scores) ==
    EmotionStates[
        CHOOSE k \in DOMAIN EmotionStates :
            /\ \A j \in DOMAIN EmotionStates :
                  emotion_scores[EmotionStates[j]]
                     <= emotion_scores[EmotionStates[k]]
            /\ \A j \in 1..(k - 1) :
                  emotion_scores[EmotionStates[j]]
                     < emotion_scores[EmotionStates[k]]]

\* the dominant emotion when its score reaches its threshold, neutral
\* otherwise
AboveThreshold(emotion_scores, dominant_emotion) ==
    IF emotion_scores[dominant_emotion] * 10
          >= EmotionThreshold(dominant_emotion) * EmotionScale
    THEN dominant_emotion
    ELSE "NEUTRAL"

\* the keyword share of a score: 0.4 * (keyword_count / len(keywords))
KeywordScore(emotion, keyword_count) ==
    IF keyword_count > 0
    THEN (4 * EmotionScale * keyword_count) \div (10 * KeywordTotal(emotion))
    ELSE 0

\* the score of each emotion before the contextual adjustments
RawEmotionScores(interaction_data) ==
    [e \in {EmotionStates[k] : k \in DOMAIN EmotionStates} |->
        KeywordScore(e, KeywordCount(e, Get(interaction_data, "response", "")))
        + (_analyze_response_patterns(interaction_data, ResponsePatterns(e))
             * 6 * EmotionScale) \div 100]

\* detect_emotion
detect_emotion(interaction_data, historical_emotions) ==
    \* the scores are computed once and handed on as a value
    LET Dominant(emotion_scores) ==
            AboveThreshold(emotion_scores, DominantEmotion(emotion_scores))
    IN  Dominant(_apply_contextual_adjustments(
                     RawEmotionScores(interaction_data), interaction_data,
                     historical_emotions))

\* EmotionMetrics(): the dataclass defaults
EmotionMetrics ==
    [current_emotion     |-> "NEUTRAL",
     confidence_level    |-> FP \div 2,
     excitement_level    |-> FP \div 2,
     frustration_level   |-> 0,
     engagement_duration |-> 0,
     recent_emotions     |-> <<>>]

\* branching_strategies[emotion_state]['branch']
StoryBranch(emotion_state) ==
    CASE emotion_state \in {"EXCITED", "CONFIDENT"} -> "challenging"
      [] emotion_state \in {"CURIOUS", "BORED"}     -> "energizing"
      [] emotion_state = "FRUSTRATED"               -> "comforting"
      [] OTHER                                      -> "encouraging"

\* RecordEmotion without the cut to the last 10
RecordEmotion_untrimmed(p, current_emotion) ==
    LET with_metrics(q) ==
            [q EXCEPT
               !.emotion_metrics.current_emotion = current_emotion,
               !.emotion_metrics.recent_emotions =
                   Append(@, EmotionValue(current_emotion))]
    IN  IF HasAttr(p, "emotion_metrics") THEN with_metrics(p)
        ELSE with_metrics(SetAttr(p, "emotion_metrics", EmotionMetrics))

\* the emotion history kept in profile.emotion_metrics: the detected
\* emotion is appended and the last 10 are kept
RecordEmotion(p, current_emotion) ==
    LET with_metrics(q) ==
            [q EXCEPT
               !.emotion_metrics.current_emotion = current_emotion,
               !.emotion_metrics.recent_emotions =
                   Tail_n(Append(@, EmotionValue(current_emotion)), 10)]
    IN  IF HasAttr(p, "emotion_metrics") THEN with_metrics(p)
        ELSE with_metrics(SetAttr(p, "emotion_metrics", EmotionMetrics))

\* what process_interaction_emotions returns, with the profile it leaves
EmotionResult(r, current_emotion) ==
    [profile |-> r.profile,
     detected_emotion |-> EmotionValue(current_emotion),
     new_achievements |-> r.new_achievements,
     emotion_branch |-> StoryBranch(current_emotion)]

\* process_interaction_emotions from the detected emotion on
AdaptToEmotion(p, interaction_data, current_emotion) ==
    EmotionResult(check_for_new_achievements(
                      RecordEmotion(p, current_emotion), interaction_data),
                  current_emotion)

\* process_interaction_emotions.  historical_emotions is read from the
\* profile itself, where nothing stores it: the history is kept in
\* profile.emotion_metrics.
process_interaction_emotions(p, interaction_data) ==
    AdaptToEmotion(p, interaction_data,
                   detect_emotion(interaction_data,
                                  Get(p, "recent_emotions", <<>>)))

(***************************************************************************)
(* apps/app.py : main() drives the session                                 *)
(***************************************************************************)
profile_vars == <<profile, unlock_events, clock>>

\* main() that generates a part while a generated question is unanswered
MainGenerateNextPart_pending ==
    /\ Len(session.question_results) < 3
    /\ Len(session.questions) <= Len(session.question_results) + 1
    /\ \E part \in generate_next_story_part(session) :
          session' = [session EXCEPT
                        !.story_parts = Append(@, part[1]),
                        !.questions = Append(@, part[2])]
    /\ outcome' = [op |-> "generate_next_story_part", error |-> "none"]
    /\ UNCHANGED <<showing_feedback, profile_vars, manager_vars>>

\* main(): "Check if we need to generate the next part"
MainGenerateNextPart ==
    /\ Len(session.question_results) < 3
    /\ Len(session.questions) <= Len(session.question_results)
    /\ \E part \in generate_next_story_part(session) :
          session' = [session EXCEPT
                        !.story_parts = Append(@, part[1]),
                        !.questions = Append(@, part[2])]
    /\ outcome' = [op |-> "generate_next_story_part", error |-> "none"]
    /\ UNCHANGED <<showing_feedback, profile_vars, manager_vars>>

\* display_question_section(): the submit button, shown by main() only for
\* an unanswered generated question and while no feedback is displayed
SubmitAnswer ==
    /\ ~showing_feedback
    /\ Len(session.question_results) < Len(session.questions)
    /\ Len(session.question_results) < 3
    /\ \E user_answer \in UserAnswers :
          IF RaisesAttributeError(session)
          THEN /\ session' = session
               /\ showing_feedback' = showing_feedback
               /\ outcome' = [op |-> "process_answer",
                              error |-> "AttributeError"]
          ELSE /\ session' = process_answer(session, user_answer)
               /\ showing_feedback' = TRUE
               /\ outcome' = [op |-> "process_answer", error |-> "none"]
    /\ UNCHANGED <<profile_vars, manager_vars>>

\* display_answer_feedback(): the feedback state is cleared by the continue
\* button, or at once when the session is complete
ContinueToNextPart ==
    /\ showing_feedback
    /\ showing_feedback' = FALSE
    /\ outcome' = NoCall
    /\ UNCHANGED <<session, profile_vars, manager_vars>>

\* "Start Another Adventure" on the completion screen, then the setup
\* screen's create_new_story_session()
StartAnotherAdventure ==
    /\ is_complete(session)
    /\ \E theme \in Themes, learning_focus \in LearningFocuses :
          session' = create_story_session(theme, learning_focus)
    /\ showing_feedback' = FALSE
    /\ outcome' = [op |-> "create_story_session", error |-> "none"]
    /\ UNCHANGED <<profile_vars, manager_vars>>

(***************************************************************************)
(* A caller that uses MultiQuestionStoryGenerator directly, in any order   *)
(***************************************************************************)
\* the inputs the direct caller is checked with
CallerAnswers == {"5", "7"}

CallerParts(s) ==
    {part \in generate_next_story_part(s) : part[2].correct_answer # "brave"}

CallerAppendsPart ==
    /\ Len(session.questions) < MaxQuestions
    /\ \E part \in CallerParts(session) :
          session' = [session EXCEPT
                        !.story_parts = Append(@, part[1]),
                        !.questions = Append(@, part[2])]
    /\ outcome' = [op |-> "generate_next_story_part", error |-> "none"]
    /\ UNCHANGED <<showing_feedback, profile_vars, manager_vars>>

CallerProcessAnswer ==
    /\ \E user_answer \in CallerAnswers :
          IF RaisesIndexError(session)
          THEN /\ session' = session
               /\ outcome' = [op |-> "process_answer", error |-> "IndexError"]
          ELSE IF RaisesAttributeError(session)
          THEN /\ session' = session
               /\ outcome' = [op |-> "process_answer",
                              error |-> "AttributeError"]
          ELSE /\ session' = process_answer(session, user_answer)
               /\ outcome' = [op |-> "process_answer", error |-> "none"]
    /\ UNCHANGED <<showing_feedback, profile_vars, manager_vars>>

CallerCreatesSession ==
    /\ session.question_results # <<>>
    /\ \E theme \in Themes, learning_focus \in LearningFocuses :
          session' = create_story_session(theme, learning_focus)
    /\ outcome' = [op |-> "create_story_session", error |-> "none"]
    /\ UNCHANGED <<showing_feedback, profile_vars, manager_vars>>

(***************************************************************************)
(* Calls on the profile                                                    *)
(***************************************************************************)
session_vars == <<session, showing_feedback>>

\* Interaction records the profile is updated with.  ScenarioA carries the
\* keys the callers of this repository write (enhanced_app.py,
\* demo_adaptive_features.py); FullyEngaged, SlowEngaged and WrongEngaged
\* carry the keys _calculate_engagement_level reads.
ScenarioA ==
    [theme |-> "dragons", learning_focus |-> "math",
     response |-> "I see the picture", correct |-> TRUE,
     response_time |-> Num(5), engagement_score |-> 9,
     comprehension_score |-> 8, session_duration |-> 420,
     story_completed |-> TRUE]

FullyEngaged ==
    [theme |-> "dragons", learning_focus |-> "Math", correct |-> TRUE,
     response_time |-> Num(5), completed |-> TRUE, response_quality |-> 9,
     session_duration |-> 420]

SlowEngaged ==
    [theme |-> "pirates", learning_focus |-> "vocabulary", correct |-> TRUE,
     response_time |-> Num(40), completed |-> TRUE, response_quality |-> 9]

WrongEngaged ==
    [theme |-> "pirates", learning_focus |-> "problem_solving",
     response |-> "i hear music", correct |-> FALSE,
     response_time |-> Num(5), completed |-> TRUE, response_quality |-> 9,
     session_duration |-> 420]

NoThemeNoFocus == [correct |-> TRUE, response_time |-> Num(5)]

BadResponseTime ==
    [theme |-> "dragons", learning_focus |-> "math", correct |-> TRUE,
     response_time |-> Str("fast")]

Interactions ==
    {ScenarioA, FullyEngaged, SlowEngaged, WrongEngaged, NoThemeNoFocus,
     BadResponseTime}

UpdateProfile(interactions) ==
    /\ clock < MaxCalls
    /\ \E interaction_data \in interactions :
          LET r == update_profile_from_interaction(profile, interaction_data,
                                                   clock + 1)
          IN  /\ profile' = r.profile
              /\ outcome' = [op |-> "update_profile_from_interaction",
                             error |-> r.error]
    /\ clock' = clock + 1
    /\ UNCHANGED <<session_vars, unlock_events, manager_vars>>

UpdateProfileFromInteraction == UpdateProfile(Interactions)

\* Interaction records of a long run: every keyword in the focus with full
\* engagement, a correct problem-solving answer with none, and the focus
\* string of the app's counting stories, which holds no keyword
AllKeywords ==
    [theme |-> "dragons", learning_focus |-> "Vocabulary and Math problems",
     correct |-> TRUE, response_time |-> Num(5), engagement_score |-> 10,
     comprehension_score |-> 10]

ProblemRight ==
    [theme |-> "pirates", learning_focus |-> "problem_solving",
     correct |-> TRUE, response_time |-> Num(12), engagement_score |-> 0,
     comprehension_score |-> 0]

NoKeyword ==
    [theme |-> "dragons", learning_focus |-> "counting and addition",
     correct |-> TRUE, response_time |-> Num(5)]

LongRunInteractions ==
    {AllKeywords, SlowEngaged, ProblemRight, WrongEngaged, NoKeyword,
     BadResponseTime}

\* the history holds one kind of interaction only
OneKind(h) == \A k \in DOMAIN h : h[k] = h[1]

\* update_profile_from_interaction over a long run in which the child
\* stays with one kind of interaction and changes kind at most once
LongRunUpdate ==
    /\ clock < MaxLongRunCalls
    /\ \E interaction_data \in LongRunInteractions :
          /\ IF OneKind(profile.interaction_history) THEN TRUE
             ELSE interaction_data = Last(profile.interaction_history)
          /\ \E r \in {update_profile_from_interaction(
                           profile, interaction_data, clock + 1)} :
                /\ profile' = r.profile
                /\ outcome' = [op |-> "update_profile_from_interaction",
                               error |-> r.error]
    /\ clock' = clock + 1
    /\ UNCHANGED <<session_vars, unlock_events, manager_vars>>

\* Interaction records the achievements are checked with
MathStory ==
    [theme |-> "dragons", learning_focus |-> "math", response |-> "5",
     correct |-> TRUE, response_time |-> Num(5), story_completed |-> TRUE,
     completed |-> TRUE, response_quality |-> 9, session_duration |-> 420]

VocabularyMiss ==
    [theme |-> "pirates", learning_focus |-> "vocabulary",
     response |-> "why?", correct |-> FALSE, response_time |-> Num(40),
     new_words_learned |-> 5]

CapitalMath ==
    [theme |-> "princesses", learning_focus |-> "Math",
     response |-> "maybe the dragon could fly over the mountain",
     correct |-> TRUE, response_time |-> Num(12)]

ExcitedMath ==
    [theme |-> "dragons", learning_focus |-> "math",
     response |-> ExcitedText, correct |-> TRUE, response_time |-> Num(2),
     story_completed |-> TRUE]

AchievementInteractions == {MathStory, VocabularyMiss, CapitalMath}

EmotionInteractions == {ExcitedMath, VocabularyMiss}

CheckForNewAchievements ==
    /\ clock < MaxCalls
    /\ \E interaction_data \in AchievementInteractions :
          LET r == check_for_new_achievements(profile, interaction_data)
          IN  /\ profile' = r.profile
              /\ outcome' = [op |-> "check_for_new_achievements",
                             error |-> "none",
                             new_achievements |-> r.new_achievements]
              /\ unlock_events' = unlock_events \o r.new_achievements
    /\ clock' = clock + 1
    /\ UNCHANGED <<session_vars, manager_vars>>

ProcessInteractionEmotions ==
    /\ clock < MaxCalls
    /\ \E interaction_data \in EmotionInteractions :
          \E r \in {process_interaction_emotions(profile, interaction_data)} :
              /\ profile' = r.profile
              /\ outcome' = [op |-> "process_interaction_emotions",
                             error |-> "none",
                             detected_emotion |-> r.detected_emotion,
                             emotion_branch |-> r.emotion_branch,
                             new_achievements |-> r.new_achievements]
              /\ unlock_events' = unlock_events \o r.new_achievements
    /\ clock' = clock + 1
    /\ UNCHANGED <<session_vars, manager_vars>>

AchievementUpdateProfile == UpdateProfile({MathStory, VocabularyMiss})

\* Interaction records of the emotion history: the excited text answered
\* at once (ExcitedMath) and after 5 seconds
ExcitedCalm ==
    [theme |-> "dragons", learning_focus |-> "math",
     response |-> ExcitedText, correct |-> TRUE, response_time |-> Num(5),
     story_completed |-> TRUE]

EmotionHistoryInteractions == {ExcitedMath, ExcitedCalm}

\* process_interaction_emotions, called over and over on one profile
EmotionHistoryCall ==
    /\ clock < MaxEmotionCalls
    /\ \E interaction_data \in EmotionHistoryInteractions :
          \E r \in {process_interaction_emotions(profile, interaction_data)} :
              /\ profile' = r.profile
              /\ outcome' = [op |-> "process_interaction_emotions",
                             error |-> "none",
                             interaction_data |-> interaction_data,
                             detected_emotion |-> r.detected_emotion,
                             emotion_branch |-> r.emotion_branch,
                             new_achievements |-> r.new_achievements]
              /\ unlock_events' = unlock_events \o r.new_achievements
    /\ clock' = clock + 1
    /\ UNCHANGED <<session_vars, manager_vars>>

(***************************************************************************)
(* A story session and the child's profile side by side: the session is    *)
(* driven as main() drives it while the profile is updated and its         *)
(* emotions are processed                                                  *)
(***************************************************************************)
SessionProfileInteractions == {FullyEngaged}

\* update_profile_from_interaction while a session runs
SessionProfileUpdate ==
    /\ clock < MaxSessionProfileCalls
    /\ \E interaction_data \in SessionProfileInteractions :
          \E r \in {update_profile_from_interaction(
                        profile, interaction_data, clock + 1)} :
              /\ profile' = r.profile
              /\ outcome' = [op |-> "update_profile_from_interaction",
                             error |-> r.error]
    /\ clock' = clock + 1
    /\ UNCHANGED <<session_vars, unlock_events, manager_vars>>

\* process_interaction_emotions while a session runs
SessionProfileEmotions ==
    /\ clock < MaxSessionProfileCalls
    /\ \E r \in {process_interaction_emotions(profile, ExcitedMath)} :
          /\ profile' = r.profile
          /\ outcome' = [op |-> "process_interaction_emotions",
                         error |-> "none",
                         detected_emotion |-> r.detected_emotion,
                         emotion_branch |-> r.emotion_branch,
                         new_achievements |-> r.new_achievements]
          /\ unlock_events' = unlock_events \o r.new_achievements
    /\ clock' = clock + 1
    /\ UNCHANGED <<session_vars, manager_vars>>

(***************************************************************************)
(* adaptive_system.py : AdaptiveSystemManager.profiles, the profile store, *)
(* and the recommendations                                                 *)
(***************************************************************************)
\* s[:n] of Python
Head_n(s, n) == IF Len(s) <= n THEN s ELSE SubSeq(s, 1, n)

\* sorted(s, key=..., reverse=True), keys[i] being the key of s[i]:
\* descending and stable, elements of equal key keep their order
SortedReverse(s, keys) ==
    LET rank(i) ==
            1 + Cardinality({j \in DOMAIN s :
                                \/ keys[j] > keys[i]
                                \/ keys[j] = keys[i] /\ j < i})
    IN  [r \in DOMAIN s |-> s[CHOOSE i \in DOMAIN s : rank(i) = r]]

\* hashlib.sha256(child_name.lower().encode()).hexdigest(): the digest of
\* the lower-cased name, one digest per string
_generate_profile_key(child_name) == <<"sha256", Lower(child_name)>>

\* ChildProfile(name=child_name, age=age, learning_style=MIXED,
\* difficulty_level=BEGINNER) as the store holds it
StoredChildProfile(child_name, age, now) ==
    [name |-> child_name, age |-> age] @@ ChildProfile(now)

\* get_or_create_profile with the age test reversed: an existing profile
\* is replaced when the age differs
get_or_create_profile_by_age(store, child_name, age, now) ==
    IF \/ _generate_profile_key(child_name) \notin DOMAIN store
       \/ store[_generate_profile_key(child_name)].age # age
    THEN [k \in DOMAIN store \cup {_generate_profile_key(child_name)} |->
             IF k = _generate_profile_key(child_name)
             THEN StoredChildProfile(child_name, age, now)
             ELSE store[k]]
    ELSE store

\* get_or_create_profile: the store it leaves; the profile returned is the
\* one stored under the key
get_or_create_profile(store, child_name, age, now) ==
    IF _generate_profile_key(child_name) \notin DOMAIN store
    THEN [k \in DOMAIN store \cup {_generate_profile_key(child_name)} |->
             IF k = _generate_profile_key(child_name)
             THEN StoredChildProfile(child_name, age, now)
             ELSE store[k]]
    ELSE store

\* get_recommended_themes that takes a graph without any interest for an
\* empty one
get_recommended_themes_by_interest(p, num_recommendations) ==
    IF \/ ~HasAttr(p, "interest_graph")
       \/ \A t \in DOMAIN p.interest_graph : p.interest_graph[t] = 0
    THEN <<"dragons", "pirates", "princesses">>
    ELSE Head_n(SortedReverse(InterestGraphKeys(p),
                              [k \in DOMAIN InterestGraphKeys(p) |->
                                  p.interest_graph[InterestGraphKeys(p)[k]]]),
                num_recommendations)

\* InterestGraphBuilder.get_recommended_themes
get_recommended_themes(p, num_recommendations) ==
    IF ~HasAttr(p, "interest_graph") \/ DOMAIN p.interest_graph = {}
    THEN <<"dragons", "pirates", "princesses">>
    ELSE Head_n(SortedReverse(InterestGraphKeys(p),
                              [k \in DOMAIN InterestGraphKeys(p) |->
                                  p.interest_graph[InterestGraphKeys(p)[k]]]),
                num_recommendations)

\* _identify_learning_gaps with strict comparisons between the skills
_identify_learning_gaps_strict(p) ==
    LET metrics == p.learning_metrics
        gaps ==
            (IF metrics.math_level < (p.age - 3) * FP
             THEN <<"math">> ELSE <<>>)
            \o (IF metrics.vocabulary_level < (p.age - 4) * FP
                THEN <<"vocabulary">> ELSE <<>>)
            \o (IF metrics.problem_solving_level < (p.age - 4) * FP
                THEN <<"problem_solving">> ELSE <<>>)
    IN  IF gaps # <<>> THEN gaps
        ELSE IF /\ metrics.math_level > metrics.vocabulary_level
                /\ metrics.math_level > metrics.problem_solving_level
             THEN <<"math">>
             ELSE IF metrics.vocabulary_level > metrics.problem_solving_level
                  THEN <<"vocabulary">>
                  ELSE <<"problem_solving">>

\* RecommendationEngine._identify_learning_gaps
_identify_learning_gaps(p) ==
    LET metrics == p.learning_metrics
        gaps ==
            (IF metrics.math_level < (p.age - 3) * FP
             THEN <<"math">> ELSE <<>>)
            \o (IF metrics.vocabulary_level < (p.age - 4) * FP
                THEN <<"vocabulary">> ELSE <<>>)
            \o (IF metrics.problem_solving_level < (p.age - 4) * FP
                THEN <<"problem_solving">> ELSE <<>>)
    IN  IF gaps # <<>> THEN gaps
        ELSE IF /\ metrics.math_level >= metrics.vocabulary_level
                /\ metrics.math_level >= metrics.problem_solving_level
             THEN <<"math">>
             ELSE IF metrics.vocabulary_level >= metrics.problem_solving_level
                  THEN <<"vocabulary">>
                  ELSE <<"problem_solving">>

\* RecommendationEngine._estimate_duration:
\* int(8 + (age - 4) * 1.5 + difficulty_level.value * 2)
_estimate_duration(p) == (16 + (p.age - 4) * 3 + p.difficulty_level * 4) \div 2

\* _calculate_confidence_score without min(1.0, score)
_calculate_confidence_score_uncapped(p, theme, learning_focus) ==
    LET relevant(i) ==
            \/ Get(i, "theme", "none") = theme
            \/ Get(i, "learning_focus", "none") = learning_focus
        right(i) == relevant(i) /\ Get(i, "correct", FALSE)
        n == Count(p.interaction_history, relevant)
    IN  Max(0,
            FP \div 2
            + (IF HasAttr(p, "interest_graph")
                  /\ theme \in DOMAIN p.interest_graph
               THEN (p.interest_graph[theme] * 3) \div 10 ELSE 0)
            + (IF InSeq(learning_focus, _identify_learning_gaps(p))
               THEN (2 * FP) \div 10 ELSE 0)
            + (IF n > 0
               THEN (Count(p.interaction_history, right) * 2 * FP)
                       \div (10 * n)
               ELSE 0))

\* RecommendationEngine._calculate_confidence_score, in units of 1/FP
_calculate_confidence_score(p, theme, learning_focus) ==
    LET relevant(i) ==
            \/ Get(i, "theme", "none") = theme
            \/ Get(i, "learning_focus", "none") = learning_focus
        right(i) == relevant(i) /\ Get(i, "correct", FALSE)
        n == Count(p.interaction_history, relevant)
    IN  Min(FP,
            FP \div 2
            + (IF HasAttr(p, "interest_graph")
                  /\ theme \in DOMAIN p.interest_graph
               THEN (p.interest_graph[theme] * 3) \div 10 ELSE 0)
            + (IF InSeq(learning_focus, _identify_learning_gaps(p))
               THEN (2 * FP) \div 10 ELSE 0)
            + (IF n > 0
               THEN (Count(p.interaction_history, right) * 2 * FP)
                       \div (10 * n)
               ELSE 0))

\* one record of generate_recommendations
Recommendation(p, theme, gap) ==
    [theme |-> theme,
     learning_focus |-> gap,
     difficulty_level |-> p.difficulty_level,
     reason |-> <<"Strengthen", gap, "skills with", theme, "adventures">>,
     estimated_duration |-> _estimate_duration(p),
     confidence_score |-> _calculate_confidence_score(p, theme, gap)]

\* the double loop of generate_recommendations over the top 3 gaps and the
\* top 2 themes
RecommendationsFor(p, gaps, themes) ==
    [k \in 1..(Len(gaps) * Len(themes)) |->
        Recommendation(p, themes[((k - 1) % Len(themes)) + 1],
                       gaps[((k - 1) \div Len(themes)) + 1])]

\* RecommendationEngine.generate_recommendations, which get_recommendations
\* returns: it reads the profile and assigns to none of its fields
generate_recommendations(p) ==
    LET by_confidence(recommendations) ==
            SortedReverse(recommendations,
                          [k \in DOMAIN recommendations |->
                              recommendations[k].confidence_score])
    IN  Head_n(by_confidence(
                   RecommendationsFor(p, Head_n(_identify_learning_gaps(p), 3),
                                      Head_n(get_recommended_themes(p, 3), 2))),
               5)

get_recommendations(p) == generate_recommendations(p)

\* AdaptiveVocabularySystem.vocabulary_levels[level]['words']
vocabulary_levels(level) ==
    CASE level = 1 -> <<"big", "small", "happy", "sad", "run", "jump", "red",
                        "blue">>
      [] level = 2 -> <<"adventure", "treasure", "magical", "courage",
                        "friendship", "explore">>
      [] level = 3 -> <<"magnificent", "mysterious", "challenge",
                        "determined", "discovery">>
      [] level = 4 -> <<"extraordinary", "magnificent", "perseverance",
                        "imagination", "accomplishment">>

\* AdaptiveVocabularySystem._get_theme_vocabulary:
\* theme_vocab.get(theme, {}).get(level, [])
_get_theme_vocabulary(theme, level) ==
    CASE theme = "dragons" /\ level = 1 -> <<"fire", "cave", "gold">>
      [] theme = "dragons" /\ level = 2 -> <<"dragon", "treasure", "castle">>
      [] theme = "dragons" /\ level = 3 ->
           <<"magnificent", "breathe fire", "guardian">>
      [] theme = "dragons" /\ level = 4 ->
           <<"majestic", "legendary", "protective">>
      [] theme = "pirates" /\ level = 1 -> <<"ship", "sea", "gold">>
      [] theme = "pirates" /\ level = 2 -> <<"pirate", "treasure", "island">>
      [] theme = "pirates" /\ level = 3 ->
           <<"adventure", "navigation", "courage">>
      [] theme = "pirates" /\ level = 4 ->
           <<"expedition", "cartographer", "mariner">>
      [] theme = "princesses" /\ level = 1 -> <<"crown", "dress", "nice">>
      [] theme = "princesses" /\ level = 2 ->
           <<"princess", "castle", "kingdom">>
      [] theme = "princesses" /\ level = 3 ->
           <<"royal", "wisdom", "leadership">>
      [] theme = "princesses" /\ level = 4 ->
           <<"diplomacy", "benevolent", "governance">>
      [] OTHER -> <<>>

\* AdaptiveVocabularySystem.get_appropriate_vocabulary, the level being
\* min(4, max(1, int(vocabulary_level)))
VocabularyAtLevel(theme, vocab_level) ==
    _get_theme_vocabulary(theme, vocab_level)
       \o Head_n(vocabulary_levels(vocab_level), 3)

get_appropriate_vocabulary(p, theme) ==
    VocabularyAtLevel(theme,
        Min(4, Max(1, p.learning_metrics.vocabulary_level \div FP)))

\* get_adaptive_story_parameters: the dict it returns; it assigns to no
\* field of the profile
get_adaptive_story_parameters(p, requested_theme) ==
    [difficulty_level |-> p.difficulty_level,
     learning_style   |-> p.learning_style,
     vocabulary_words |-> get_appropriate_vocabulary(p, requested_theme),
     preferred_themes |-> IF HasAttr(p, "interest_graph")
                          THEN p.interest_graph ELSE <<>>,
     learning_metrics |-> p.learning_metrics]

\* the names and ages get_or_create_profile is called with, and the
\* interactions the stored profiles are updated with
ChildNames == {"Emma", "EMMA", "Liam"}

Ages == {4, 6}

\* MathStory as enhanced_app.py records it for a child that is fully
\* engaged
LovedMathStory == [engagement_score |-> 10] @@ MathStory

StoreInteractions == {LovedMathStory, VocabularyMiss}

\* an operation on one stored profile: the profile object is the one the
\* store holds, so the store sees what the operation writes
StoreOps ==
    [kind : {"update_profile_from_interaction",
             "process_interaction_emotions"},
     interaction_data : StoreInteractions]

\* RunStoreOp in which process_interaction_emotions records the
\* interaction in the history as well
RunStoreOp_recording_emotions(p, store_op, now) ==
    IF store_op.kind = "update_profile_from_interaction"
    THEN update_profile_from_interaction(p, store_op.interaction_data,
                                         now).profile
    ELSE process_interaction_emotions(
             [p EXCEPT !.interaction_history =
                          Append(@, store_op.interaction_data)],
             store_op.interaction_data).profile

RunStoreOp(p, store_op, now) ==
    IF store_op.kind = "update_profile_from_interaction"
    THEN update_profile_from_interaction(p, store_op.interaction_data,
                                         now).profile
    ELSE process_interaction_emotions(p, store_op.interaction_data).profile

ApplyStoreOp(store, profile_key, store_op, now) ==
    [store EXCEPT ![profile_key] = RunStoreOp(@, store_op, now)]

GetOrCreateProfile ==
    /\ clock < MaxStoreCalls
    /\ \E child_name \in ChildNames, age \in Ages :
          /\ profiles' = get_or_create_profile(profiles, child_name, age,
                                               clock + 1)
          /\ outcome' = [op |-> "get_or_create_profile", error |-> "none",
                         child_name |-> child_name, age |-> age,
                         profile_key |-> _generate_profile_key(child_name)]
    /\ clock' = clock + 1
    /\ UNCHANGED <<session_vars, profile, unlock_events, threads>>

\* an operation that also ages the interest graphs of the other profiles
StoreProcessesInteraction_shared_decay ==
    /\ clock < MaxStoreCalls
    /\ \E profile_key \in DOMAIN profiles, store_op \in StoreOps :
          /\ profiles' =
                [k \in DOMAIN profiles |->
                    IF k = profile_key
                    THEN RunStoreOp(profiles[k], store_op, clock + 1)
                    ELSE IF HasAttr(profiles[k], "interest_graph")
                         THEN [profiles[k] EXCEPT !.interest_graph =
                                 [t \in DOMAIN @ |->
                                    (@[t] * interest_decay_factor) \div 100]]
                         ELSE profiles[k]]
          /\ outcome' = [op |-> store_op.kind, error |-> "none",
                         profile_key |-> profile_key,
                         interaction_data |-> store_op.interaction_data]
    /\ clock' = clock + 1
    /\ UNCHANGED <<session_vars, profile, unlock_events, threads>>

\* update_profile_from_interaction or process_interaction_emotions on a
\* profile got from the store
StoreProcessesInteraction ==
    /\ clock < MaxStoreCalls
    /\ \E profile_key \in DOMAIN profiles, store_op \in StoreOps :
          /\ profiles' = ApplyStoreOp(profiles, profile_key, store_op,
                                      clock + 1)
          /\ outcome' = [op |-> store_op.kind, error |-> "none",
                         profile_key |-> profile_key,
                         interaction_data |-> store_op.interaction_data]
    /\ clock' = clock + 1
    /\ UNCHANGED <<session_vars, profile, unlock_events, threads>>

\* the themes a story is requested for: one with words of its own and one
\* without
RequestedThemes == {"dragons", "space"}

\* get_adaptive_story_parameters on a profile got from the store
GetAdaptiveStoryParameters ==
    /\ clock < MaxStoreCalls
    /\ \E profile_key \in DOMAIN profiles, requested_theme \in RequestedThemes :
          outcome' = [op |-> "get_adaptive_story_parameters",
                      error |-> "none",
                      profile_key |-> profile_key,
                      adaptive_params |->
                          get_adaptive_story_parameters(
                              profiles[profile_key], requested_theme)]
    /\ clock' = clock + 1
    /\ UNCHANGED <<session_vars, profile, unlock_events, profiles, threads>>

\* get_recommendations that notes the request in the profile's history
GetRecommendations_logged ==
    /\ clock < MaxStoreCalls
    /\ \E profile_key \in DOMAIN profiles :
          /\ outcome' = [op |-> "get_recommendations", error |-> "none",
                         profile_key |-> profile_key,
                         recommendations |->
                             get_recommendations(profiles[profile_key])]
          /\ profiles' = [profiles EXCEPT
                            ![profile_key].interaction_history =
                                Append(@, [theme |-> "dragons",
                                           correct |-> TRUE])]
    /\ clock' = clock + 1
    /\ UNCHANGED <<session_vars, profile, unlock_events, threads>>

\* get_recommendations on a profile got from the store
GetRecommendations ==
    /\ clock < MaxStoreCalls
    /\ \E profile_key \in DOMAIN profiles :
          outcome' = [op |-> "get_recommendations", error |-> "none",
                      profile_key |-> profile_key,
                      recommendations |->
                          get_recommendations(profiles[profile_key])]
    /\ clock' = clock + 1
    /\ UNCHANGED <<session_vars, profile, unlock_events, profiles, threads>>

(***************************************************************************)
(* RecommendationEngine._identify_learning_gaps on a profile whose skills  *)
(* rise                                                                    *)
(***************************************************************************)
\* the ages of the child: at 4 no skill can be below its threshold, at 5
\* math can, at 6 every skill can
GapAges == {4, 5, 6}

\* correct answers in each of the three skills
GapInteractions == {FullyEngaged, SlowEngaged, ProblemRight}

\* update_profile_from_interaction with a correct answer
GapProfileUpdate ==
    /\ clock < MaxGapCalls
    /\ \E interaction_data \in GapInteractions :
          \E r \in {update_profile_from_interaction(
                        profile, interaction_data, clock + 1)} :
              /\ profile' = r.profile
              /\ outcome' = [op |-> "update_profile_from_interaction",
                             error |-> r.error]
    /\ clock' = clock + 1
    /\ UNCHANGED <<session_vars, unlock_events, manager_vars>>

\* _identify_learning_gaps(profile)
IdentifyLearningGaps ==
    /\ clock < MaxGapCalls
    /\ outcome' = [op |-> "_identify_learning_gaps", error |-> "none",
                   gaps |-> _identify_learning_gaps(profile)]
    /\ clock' = clock + 1
    /\ UNCHANGED <<session_vars, profile, unlock_events, manager_vars>>

(***************************************************************************)
(* InterestGraphBuilder called on one profile                              *)
(***************************************************************************)
\* the themes and the engagement scores, in tenths, the graph is updated
\* with, and the numbers of themes asked for
InterestThemes == {"dragons", "pirates", "space"}

EngagementScores == {0, 5, 10}

NumRecommendations == 1..3

\* update_interest_graph(profile, theme, engagement_score)
UpdateInterestGraph ==
    /\ clock < MaxInterestCalls
    /\ \E theme \in InterestThemes, engagement_score \in EngagementScores :
          /\ profile' = update_interest_graph(profile, theme, engagement_score)
          /\ outcome' = [op |-> "update_interest_graph", error |-> "none",
                         theme |-> theme,
                         engagement_score |-> engagement_score]
    /\ clock' = clock + 1
    /\ UNCHANGED <<session_vars, unlock_events, manager_vars>>

\* get_recommended_themes(profile, num_recommendations)
GetRecommendedThemes ==
    /\ clock < MaxInterestCalls
    /\ \E num_recommendations \in NumRecommendations :
          outcome' = [op |-> "get_recommended_themes", error |-> "none",
                      num_recommendations |-> num_recommendations,
                      themes |-> get_recommended_themes(profile,
                                                        num_recommendations)]
    /\ clock' = clock + 1
    /\ UNCHANGED <<session_vars, profile, unlock_events, manager_vars>>

(***************************************************************************)
(* Two threads that call into the same profile.  Nothing in the code takes *)
(* a lock, so a thread switch can fall between any two statements that the *)
(* interpreter separates by a call: each action below is one such stretch  *)
(* of one call, run by one thread.                                         *)
(***************************************************************************)
Threads == {"t1", "t2"}

IdleFrame ==
    [pc |-> "idle", op |-> "none", interaction_data |-> [correct |-> FALSE],
     index |-> 0, new_achievements |-> <<>>]

\* the interactions the two threads process
ConcurrentInteractions == {MathStory, VocabularyMiss}

ConcurrentOps ==
    {"process_interaction_emotions", "update_profile_from_interaction"}

\* what no thread step touches
off_thread_vars == <<session_vars, profiles>>

\* a thread enters process_interaction_emotions or
\* update_profile_from_interaction
ThreadStartsCall ==
    \E t \in Threads, op \in ConcurrentOps,
       interaction_data \in ConcurrentInteractions :
        /\ threads[t].pc = "idle"
        /\ threads' = [threads EXCEPT ![t] =
              [IdleFrame EXCEPT
                 !.pc = IF op = "process_interaction_emotions"
                        THEN "emotion" ELSE "history",
                 !.op = op,
                 !.interaction_data = interaction_data]]
        /\ clock' = clock + 1
        /\ UNCHANGED <<off_thread_vars, profile, outcome, unlock_events>>

\* process_interaction_emotions up to its call of check_for_new_achievements
ThreadRecordsEmotion ==
    \E t \in Threads :
        /\ threads[t].pc = "emotion"
        /\ profile' = RecordEmotion(profile,
                          detect_emotion(threads[t].interaction_data,
                                         Get(profile, "recent_emotions", <<>>)))
        /\ threads' = [threads EXCEPT ![t].pc = "stats"]
        /\ UNCHANGED <<off_thread_vars, outcome, unlock_events, clock>>

\* check_for_new_achievements: self._update_achievement_stats(...)
ThreadUpdatesStats ==
    \E t \in Threads :
        /\ threads[t].pc = "stats"
        /\ profile' = _update_achievement_stats(profile,
                                                threads[t].interaction_data)
        /\ threads' = [threads EXCEPT ![t].pc = "test", ![t].index = 1]
        /\ UNCHANGED <<off_thread_vars, outcome, unlock_events, clock>>

\* one turn of the loop: 'achievement_id not in profile.achievements' and
\* _check_achievement_criteria; after the last id the call returns
ThreadTestsAchievement ==
    \E t \in Threads :
        /\ threads[t].pc = "test"
        /\ IF threads[t].index > Len(AchievementIds)
           THEN /\ threads' = [threads EXCEPT ![t].pc = "done"]
                /\ outcome' = [op |-> threads[t].op, error |-> "none",
                               new_achievements |-> threads[t].new_achievements]
                /\ unlock_events' =
                      unlock_events \o threads[t].new_achievements
           ELSE /\ threads' = [threads EXCEPT
                      ![t].pc =
                          IF /\ ~InSeq(AchievementIds[threads[t].index],
                                       profile.achievements)
                             /\ _check_achievement_criteria(
                                    AchievementIds[threads[t].index], profile)
                          THEN "append" ELSE "test",
                      ![t].index =
                          IF /\ ~InSeq(AchievementIds[threads[t].index],
                                       profile.achievements)
                             /\ _check_achievement_criteria(
                                    AchievementIds[threads[t].index], profile)
                          THEN @ ELSE @ + 1]
                /\ UNCHANGED <<outcome, unlock_events>>
        /\ UNCHANGED <<off_thread_vars, profile, clock>>

\* the body of the two tests: Achievement(...) is built and the id appended
ThreadAppendsAchievement ==
    \E t \in Threads :
        /\ threads[t].pc = "append"
        /\ profile' = [profile EXCEPT !.achievements =
                          Append(@, AchievementIds[threads[t].index])]
        /\ threads' = [threads EXCEPT
              ![t].pc = "test",
              ![t].index = @ + 1,
              ![t].new_achievements =
                  Append(@, AchievementIds[threads[t].index])]
        /\ UNCHANGED <<off_thread_vars, outcome, unlock_events, clock>>

\* update_profile_from_interaction: interaction_history.append(...)
ThreadAppendsHistory ==
    \E t \in Threads :
        /\ threads[t].pc = "history"
        /\ profile' = [profile EXCEPT !.interaction_history =
                          Append(@, threads[t].interaction_data)]
        /\ threads' = [threads EXCEPT ![t].pc = "metrics"]
        /\ UNCHANGED <<off_thread_vars, outcome, unlock_events, clock>>

\* update_profile_from_interaction: self._update_learning_metrics(...)
ThreadUpdatesMetrics ==
    \E t \in Threads :
        /\ threads[t].pc = "metrics"
        /\ profile' = _update_learning_metrics(
                          profile, threads[t].interaction_data).profile
        /\ threads' = [threads EXCEPT ![t].pc = "rest"]
        /\ UNCHANGED <<off_thread_vars, outcome, unlock_events, clock>>

\* update_profile_from_interaction: from analyze_performance to the end
ThreadFinishesUpdate ==
    \E t \in Threads :
        /\ threads[t].pc = "rest"
        /\ profile' = AfterLearningMetrics(profile,
                          threads[t].interaction_data, clock)
        /\ threads' = [threads EXCEPT ![t].pc = "done"]
        /\ outcome' = [op |-> threads[t].op, error |-> "none"]
        /\ UNCHANGED <<off_thread_vars, unlock_events, clock>>

Init ==
    /\ \E theme \in Themes, learning_focus \in LearningFocuses :
          session = create_story_session(theme, learning_focus)
    /\ showing_feedback = FALSE
    /\ outcome = NoCall
    /\ profile = ChildProfile(0)
    /\ unlock_events = <<>>
    /\ clock = 0
    /\ profiles = <<>>
    /\ threads = [t \in Threads |-> IdleFrame]

Next ==
    \/ MainGenerateNextPart
    \/ SubmitAnswer
    \/ ContinueToNextPart
    \/ StartAnotherAdventure

Spec == Init /\ [][Next]_vars

\* The app flow of a child who stays with the story: Streamlit reruns
\* main() after every event, so a part that is due is generated, and the
\* child presses the submit and continue buttons that are shown
LiveSpec ==
    /\ Init
    /\ [][Next]_vars
    /\ WF_vars(MainGenerateNextPart)
    /\ WF_vars(SubmitAnswer)
    /\ WF_vars(ContinueToNextPart)

CallerNext ==
    \/ CallerAppendsPart
    \/ CallerProcessAnswer
    \/ CallerCreatesSession

CallerSpec == Init /\ [][CallerNext]_vars

\* the profile of a child whose app session has just been created
ProfileInit ==
    /\ Init
    /\ session = create_story_session("dragons", "counting and addition")

ProfileNext == UpdateProfileFromInteraction

ProfileSpec == ProfileInit /\ [][ProfileNext]_vars

AchievementNext ==
    \/ CheckForNewAchievements
    \/ ProcessInteractionEmotions
    \/ AchievementUpdateProfile

AchievementSpec == ProfileInit /\ [][AchievementNext]_vars

EmotionHistoryNext == EmotionHistoryCall

EmotionHistorySpec == ProfileInit /\ [][EmotionHistoryNext]_vars

SessionProfileNext ==
    \/ MainGenerateNextPart
    \/ SubmitAnswer
    \/ ContinueToNextPart
    \/ StartAnotherAdventure
    \/ SessionProfileUpdate
    \/ SessionProfileEmotions

SessionProfileSpec == Init /\ [][SessionProfileNext]_vars

\* a profile as get_or_create_profile makes it for a child of some age
GapInit ==
    /\ session = create_story_session("dragons", "counting and addition")
    /\ showing_feedback = FALSE
    /\ outcome = NoCall
    /\ \E age \in GapAges : profile = StoredChildProfile("Emma", age, 0)
    /\ unlock_events = <<>>
    /\ clock = 0
    /\ profiles = <<>>
    /\ threads = [t \in Threads |-> IdleFrame]

GapNext ==
    \/ GapProfileUpdate
    \/ IdentifyLearningGaps

GapSpec == GapInit /\ [][GapNext]_vars

InterestNext ==
    \/ UpdateInterestGraph
    \/ GetRecommendedThemes

InterestSpec == ProfileInit /\ [][InterestNext]_vars

StoreNext ==
    \/ GetOrCreateProfile
    \/ StoreProcessesInteraction
    \/ GetRecommendations
    \/ GetAdaptiveStoryParameters

StoreSpec == ProfileInit /\ [][StoreNext]_vars

LongRunNext == LongRunUpdate

LongRunSpec == ProfileInit /\ [][LongRunNext]_vars

ConcurrentNext ==
    \/ ThreadStartsCall
    \/ ThreadRecordsEmotion
    \/ ThreadUpdatesStats
    \/ ThreadTestsAchievement
    \/ ThreadAppendsAchievement
    \/ ThreadAppendsHistory
    \/ ThreadUpdatesMetrics
    \/ ThreadFinishesUpdate

ConcurrentSpec == ProfileInit /\ [][ConcurrentNext]_vars

(***************************************************************************)
(* Claims on the session state machine                                     *)
(***************************************************************************)
NumResults == Len(session.question_results)

\* the transition table as the specification words it
TransitionTable(level, correct) ==
    CASE correct /\ level = "EASY"    -> "MEDIUM"
      [] correct /\ level = "MEDIUM"  -> "HARD"
      [] correct /\ level = "HARD"    -> "HARD"
      [] ~correct /\ level = "HARD"   -> "MEDIUM"
      [] ~correct /\ level = "MEDIUM" -> "EASY"
      [] ~correct /\ level = "EASY"   -> "EASY"

\* a step that records the n-th answer of the session
RecordsAnswer(n) ==
    /\ Len(session.question_results) = n - 1
    /\ Len(session'.question_results) = n

\* C1: each of the first two answers moves the session difficulty as the
\* transition table says (up one level on a correct answer, down one on an
\* incorrect one, HARD+correct and EASY+incorrect unchanged), and the
\* difficulty is always one of EASY, MEDIUM, HARD.
C1_FirstTwoAnswersFollowTable ==
    /\ [](session.difficulty_level \in SessionDifficultyLevel)
    /\ [][(RecordsAnswer(1) \/ RecordsAnswer(2)) =>
            session'.difficulty_level =
                TransitionTable(session.difficulty_level,
                                Last(session'.question_results).is_correct)]_vars

C1_Witness ==
    /\ NumResults = 2
    /\ session.question_results[1].is_correct
    /\ ~session.question_results[2].is_correct
    /\ session.question_results[2].difficulty_level = "MEDIUM"
    /\ session.difficulty_level = "EASY"

\* C2: the session is 'completed' exactly when it holds 3 results, it is
\* 'in_progress' while it holds fewer, and it never holds more than 3.
C2_CompletedIffThreeResults ==
    /\ NumResults <= 3
    /\ session.status = "completed" <=> NumResults = 3
    /\ session.status = "in_progress" <=> NumResults < 3

C2_Witness ==
    /\ NumResults = 3
    /\ session.status = "completed"
    /\ outcome.op = "process_answer"

\* C3: two correct answers take the session EASY -> MEDIUM -> HARD, and the
\* step that records the third answer keeps the difficulty and sets the
\* status to 'completed'.
C3_TwoCorrectThenFrozen ==
    /\ []((NumResults >= 2 /\ session.question_results[1].is_correct
                           /\ session.question_results[2].is_correct)
           => /\ session.question_results[1].difficulty_level = "EASY"
              /\ session.question_results[2].difficulty_level = "MEDIUM"
              /\ session.difficulty_level = "HARD")
    /\ []((NumResults >= 1 /\ session.question_results[1].is_correct)
           => (NumResults = 1 => session.difficulty_level = "MEDIUM"))
    /\ [][RecordsAnswer(3) =>
            /\ session'.difficulty_level = session.difficulty_level
            /\ session.status = "in_progress"
            /\ session'.status = "completed"]_vars

C3_Witness ==
    /\ NumResults = 3
    /\ session.question_results[1].is_correct
    /\ session.question_results[2].is_correct
    /\ ~session.question_results[3].is_correct
    /\ session.question_results[3].difficulty_level = "HARD"
    /\ session.difficulty_level = "HARD"
    /\ session.status = "completed"

\* C4: process_answer on a session that already holds 3 results raises an
\* error and leaves the session as it was, however many questions the
\* session holds.
C4_CompletedSessionRejectsAnswer ==
    [][(NumResults >= 3 /\ outcome'.op = "process_answer")
         => (outcome'.error # "none" /\ session' = session)]_vars

(***************************************************************************)
(* Claims on the achievements                                              *)
(***************************************************************************)
NoDuplicates(s) == \A j, k \in DOMAIN s : s[j] = s[k] => j = k

\* the step is a call of check_for_new_achievements
IsCheckCall == clock' = clock + 1 /\ outcome'.op = "check_for_new_achievements"

MathProblemsSolved(p) ==
    IF HasAttr(p, "achievement_stats")
    THEN p.achievement_stats.math_problems_solved ELSE 0

\* C5: whatever sequence of check_for_new_achievements and
\* process_interaction_emotions calls is made on the profile,
\* profile.achievements never holds an id twice, and over the life of the
\* profile no id is returned as a new achievement by more than one call.
C5_AchievementsUnlockOnce ==
    /\ NoDuplicates(profile.achievements)
    /\ NoDuplicates(unlock_events)

\* a story was completed twice, once under each kind of call, and the
\* later call returned nothing
C5_Witness ==
    /\ outcome.op = "process_interaction_emotions"
    /\ outcome.new_achievements = <<>>
    /\ InSeq("first_story_complete", profile.achievements)
    /\ profile.achievement_stats.stories_completed >= 2
    /\ Len(profile.emotion_metrics.recent_emotions) = 1

\* C6: the call whose interaction brings math_problems_solved from 4 to 5
\* returns math_master_beginner exactly once, and no call made once the
\* counter has reached 5 returns it again.
C6_MathMasterOnCrossingFive ==
    /\ [][(IsCheckCall /\ MathProblemsSolved(profile) = 4
                       /\ MathProblemsSolved(profile') = 5)
            => Cardinality({k \in DOMAIN outcome'.new_achievements :
                   outcome'.new_achievements[k] = "math_master_beginner"}) = 1]_vars
    /\ [][(IsCheckCall /\ MathProblemsSolved(profile) >= 5)
            => ~InSeq("math_master_beginner", outcome'.new_achievements)]_vars

C6_Witness ==
    /\ outcome.op = "check_for_new_achievements"
    /\ MathProblemsSolved(profile) = 5
    /\ InSeq("math_master_beginner", outcome.new_achievements)

(***************************************************************************)
(* Claims on the long-run profile                                          *)
(***************************************************************************)
\* the step is a call of update_profile_from_interaction
IsUpdateCall ==
    clock' = clock + 1 /\ outcome'.op = "update_profile_from_interaction"

\* the interaction the call was made with: the code appends it first
CallInteraction == Last(profile'.interaction_history)

\* correct, answered in 5 s, engagement 0.9
IsScenarioA(i) ==
    /\ Get(i, "correct", FALSE)
    /\ Get(i, "response_time", Num(15)) = Num(5)
    /\ Get(i, "engagement_score", 0) = 9

\* C7: when the last 5 interactions are all correct with response time 5 s
\* and engagement 0.9, the update raises the difficulty level by exactly one
\* level (from L < 4 to L + 1).
C7_ScenarioARaisesLevel ==
    [][(/\ IsUpdateCall
        /\ Len(profile'.interaction_history) >= 5
        /\ \A k \in DOMAIN Tail_n(profile'.interaction_history, 5) :
              IsScenarioA(Tail_n(profile'.interaction_history, 5)[k])
        /\ profile.difficulty_level < 4)
         => profile'.difficulty_level = profile.difficulty_level + 1]_vars

\* the quantities of the rule in exact arithmetic: the number of correct
\* answers, total response time and total engagement score (in tenths)
CorrectCount(h) == Count(h, LAMBDA i : Get(i, "correct", FALSE))

TotalResponseTime(h) ==
    SumSeq([k \in DOMAIN h |-> Get(h[k], "response_time", Num(15))[2]])

TotalEngagement(h) == SumSeq([k \in DOMAIN h |-> EngagementScore(h[k])])

\* the level the rule of the specification gives for history h
RuleLevel(current, h) ==
    LET h5 == Tail_n(h, 5)
        h3 == Tail_n(h, 3)
    IN  IF /\ CorrectCount(h5) * 100 > 85 * Len(h5)
           /\ TotalEngagement(h3) * 10 > 70 * Len(h3)
           /\ TotalResponseTime(h5) < 30 * Len(h5)
        THEN Min(4, current + 1)
        ELSE IF \/ CorrectCount(h5) * 100 < 60 * Len(h5)
                \/ TotalEngagement(h3) * 10 < 70 * Len(h3)
             THEN Max(1, current - 1)
             ELSE current

\* C8: the recomputed level is in 1..4, differs from the current level by at
\* most one and is the level the rule gives: up when success rate > 0.85,
\* engagement > 0.70 and mean response time < 30.0; otherwise down when
\* success rate < 0.60 or engagement < 0.70; otherwise unchanged.
C8_LevelFollowsRule ==
    [][(IsUpdateCall /\ outcome'.error = "none")
         => /\ profile'.difficulty_level \in 1..4
            /\ profile'.difficulty_level - profile.difficulty_level \in {-1, 0, 1}
            /\ profile'.difficulty_level =
                  RuleLevel(profile.difficulty_level,
                            profile'.interaction_history)]_vars

LacksThemeOrFocus(i) ==
    "theme" \notin DOMAIN i \/ "learning_focus" \notin DOMAIN i

SkillLevels(p) ==
    <<p.learning_metrics.math_level, p.learning_metrics.vocabulary_level,
      p.learning_metrics.problem_solving_level>>

\* a record of the last five whose response_time is not a number
WindowHasBadResponseTime(h) ==
    \E k \in DOMAIN Tail_n(h, 5) :
        ~IsNumber(Get(Tail_n(h, 5)[k], "response_time", Num(15)))

C10_UpdateIsAtomic ==
    [][IsUpdateCall =>
         \/ /\ outcome'.error = "none"
            /\ profile'.interaction_history =
                  Append(profile.interaction_history, CallInteraction)
            /\ HasAttr(profile', "interest_graph")
            /\ profile'.last_updated = clock'
         \/ /\ outcome'.error # "none"
            /\ profile' = profile]_vars

\* engagement_score and comprehension_score of the record lie in [0, 1]
ScoresInUnitInterval(i) ==
    /\ Get(i, "engagement_score", 0) \in 0..10
    /\ Get(i, "comprehension_score", 0) \in 0..10

\* C12: after any sequence of updates whose engagement and comprehension
\* scores lie in [0, 1], success_rate and engagement_level are in [0, 1] and
\* each of the three skill levels is in [1, 4].
C12_MetricsStayInBounds ==
    (\A k \in DOMAIN profile.interaction_history :
        ScoresInUnitInterval(profile.interaction_history[k]))
    => /\ profile.learning_metrics.success_rate \in 0..FP
       /\ profile.learning_metrics.engagement_level \in 0..FP
       /\ \A j \in 1..3 : SkillLevels(profile)[j] \in FP..(4 * FP)

\* thirty correct math answers have taken math_level to the cap, with
\* further ones after it
C12_Witness ==
    /\ Len(profile.interaction_history) > 30
    /\ profile.learning_metrics.math_level = 4 * FP
    /\ profile.learning_metrics.success_rate * 10 > 9 * FP
    /\ profile.learning_metrics.engagement_level * 10 > 9 * FP

\* the skill levels the claim expects after interaction i: <<math,
\* vocabulary, problem solving>>
ExpectedSkills(levels, i) ==
    LET focus == Lower(Get(i, "learning_focus", ""))
        raised(level) == IF level + FP \div 10 > 4 * FP THEN 4 * FP
                         ELSE level + FP \div 10
    IN  IF ~Get(i, "correct", FALSE) THEN levels
        ELSE IF ContainsMath(focus)
        THEN <<raised(levels[1]), levels[2], levels[3]>>
        ELSE IF ContainsVocabulary(focus)
        THEN <<levels[1], raised(levels[2]), levels[3]>>
        ELSE IF ContainsProblem(focus)
        THEN <<levels[1], levels[2], raised(levels[3])>>
        ELSE levels

\* C13: no update lowers a skill level; an update that returns raises by
\* 0.1, capped at 4, exactly the first of math, vocabulary, problem solving
\* whose keyword occurs in the lower-cased learning_focus when the answer
\* is correct, and changes no skill level when the answer is incorrect or
\* no keyword occurs.
C13_SkillsOnlyRise ==
    [][IsUpdateCall =>
         /\ \A j \in 1..3 : SkillLevels(profile')[j] >= SkillLevels(profile)[j]
         /\ outcome'.error = "none" =>
               SkillLevels(profile') =
                   ExpectedSkills(SkillLevels(profile), CallInteraction)]_vars

\* a focus that holds all three keywords has raised math only, and a later
\* correct vocabulary answer has raised vocabulary
C13_Witness ==
    /\ outcome.op = "update_profile_from_interaction"
    /\ outcome.error = "none"
    /\ InSeq(AllKeywords, profile.interaction_history)
    /\ Last(profile.interaction_history) = SlowEngaged
    /\ profile.learning_metrics.math_level > FP
    /\ profile.learning_metrics.vocabulary_level = FP + FP \div 10
    /\ profile.learning_metrics.problem_solving_level = FP

(***************************************************************************)
(* Claims on concurrent calls                                              *)
(***************************************************************************)
\* the fields the claim compares: achievements, metrics and history
ObservedProfile(p) ==
    [achievements        |-> p.achievements,
     learning_metrics    |-> p.learning_metrics,
     interaction_history |-> p.interaction_history]

\* the call of a thread's frame, run from start to end on profile p
RunCall(p, frame) ==
    IF frame.op = "process_interaction_emotions"
    THEN process_interaction_emotions(p, frame.interaction_data).profile
    ELSE update_profile_from_interaction(p, frame.interaction_data, 0).profile

BothReturned == \A t \in Threads : threads[t].pc = "done"

\* C11: two calls issued concurrently on one profile behave as if
\* serialized: under every interleaving no achievement id is appended
\* twice, and once both have returned the achievements, metrics and history
\* are those of the two calls run one after the other in some order.
C11_ConcurrentCallsSerialized ==
    /\ NoDuplicates(profile.achievements)
    /\ BothReturned =>
          \E first \in Threads, second \in Threads :
              /\ first # second
              /\ ObservedProfile(profile) =
                    ObservedProfile(RunCall(RunCall(ChildProfile(0),
                                                    threads[first]),
                                            threads[second]))

(***************************************************************************)
(* Claims on the emotion history                                           *)
(***************************************************************************)
\* the step is a call of process_interaction_emotions
IsEmotionCall ==
    clock' = clock + 1 /\ outcome'.op = "process_interaction_emotions"

\* profile.emotion_metrics.recent_emotions, empty before the first call
RecordedEmotions(p) ==
    IF HasAttr(p, "emotion_metrics") THEN p.emotion_metrics.recent_emotions
    ELSE <<>>

\* EmotionState(value): the member with that value
EmotionState(value) ==
    CHOOSE emotion_state \in {"EXCITED", "CURIOUS", "CONFIDENT", "FRUSTRATED",
                              "BORED", "NEUTRAL"} :
        EmotionValue(emotion_state) = value

\* the recorded emotions as the members the scores are keyed by
AsEmotionStates(values) ==
    [k \in DOMAIN values |-> EmotionState(values[k])]

\* C14: a call of process_interaction_emotions detects the emotion with the
\* emotions recorded by the earlier calls as its history, so that the score
\* of the most recent recorded emotion is multiplied by 1.2 before the
\* dominant emotion is chosen.
C14_MomentumFromRecordedEmotions ==
    [][IsEmotionCall =>
         outcome'.detected_emotion =
            EmotionValue(detect_emotion(
                outcome'.interaction_data,
                AsEmotionStates(RecordedEmotions(profile))))]_vars

\* C15: after n calls recent_emotions holds the last min(n, 10) detected
\* emotions in the order of the calls, and current_emotion is the last of
\* them: each call appends the emotion it detected, keeps the last 10 and
\* stores the same emotion as current_emotion.
C15_LastTenEmotionsInOrder ==
    [][IsEmotionCall =>
         /\ RecordedEmotions(profile') =
               Tail_n(Append(RecordedEmotions(profile),
                             outcome'.detected_emotion), 10)
         /\ Len(RecordedEmotions(profile')) = Min(clock', 10)
         /\ EmotionValue(profile'.emotion_metrics.current_emotion) =
               Last(RecordedEmotions(profile'))]_vars

\* the eleventh call has pushed the first emotion out of a history that
\* holds both excited and neutral
C15_Witness ==
    /\ outcome.op = "process_interaction_emotions"
    /\ clock > 10
    /\ Len(RecordedEmotions(profile)) = 10
    /\ RecordedEmotions(profile)[1] = "excited"
    /\ RecordedEmotions(profile)[9] = "excited"
    /\ RecordedEmotions(profile)[10] = "neutral"
    /\ profile.emotion_metrics.current_emotion = "NEUTRAL"

(***************************************************************************)
(* Claims on the profile store and the recommendations                     *)
(***************************************************************************)
\* the step is a call of get_or_create_profile
IsCreateCall == clock' = clock + 1 /\ outcome'.op = "get_or_create_profile"

\* the stored profiles whose name is child_name in some letter case
ProfilesNamed(store, child_name) ==
    {k \in DOMAIN store : Lower(store[k].name) = Lower(child_name)}

\* C16: the store holds one profile per distinct lower-cased name.  The
\* first get_or_create_profile call for a name adds a profile with
\* learning_style MIXED and difficulty_level BEGINNER; a later call with the
\* name in any letter case, and any age, returns the profile stored for it
\* and changes nothing in the store.
C16_OneProfilePerLowerCasedName ==
    [][IsCreateCall =>
         /\ Cardinality(ProfilesNamed(profiles', outcome'.child_name)) = 1
         /\ outcome'.profile_key \in ProfilesNamed(profiles', outcome'.child_name)
         /\ IF ProfilesNamed(profiles, outcome'.child_name) = {}
            THEN /\ DOMAIN profiles' = DOMAIN profiles \cup {outcome'.profile_key}
                 /\ \A k \in DOMAIN profiles : profiles'[k] = profiles[k]
                 /\ profiles'[outcome'.profile_key].learning_style = "mixed"
                 /\ profiles'[outcome'.profile_key].difficulty_level = 1
                 /\ profiles'[outcome'.profile_key].name = outcome'.child_name
                 /\ profiles'[outcome'.profile_key].age = outcome'.age
            ELSE profiles' = profiles]_vars

\* EMMA, age 4, is asked for after Emma, age 6, has answered: the profile
\* returned is Emma's, with its history
C16_Witness ==
    /\ outcome.op = "get_or_create_profile"
    /\ outcome.child_name = "EMMA"
    /\ outcome.age = 4
    /\ DOMAIN profiles = {outcome.profile_key}
    /\ profiles[outcome.profile_key].name = "Emma"
    /\ profiles[outcome.profile_key].age = 6
    /\ profiles[outcome.profile_key].interaction_history # <<>>
    /\ profiles[outcome.profile_key].difficulty_level = 1

\* the step is a call of get_recommendations
IsRecommendationCall ==
    clock' = clock + 1 /\ outcome'.op = "get_recommendations"

\* C17: get_recommendations leaves the profile as it was, and a call that
\* follows another call for the same profile, with nothing processed in
\* between, returns the same list in the same order.
C17_RecommendationsReadOnly ==
    [][IsRecommendationCall =>
         /\ profiles' = profiles
         /\ (/\ outcome.op = "get_recommendations"
             /\ outcome.profile_key = outcome'.profile_key)
            => outcome'.recommendations = outcome.recommendations]_vars

\* recommendations of a profile with a history and two themes of interest:
\* the list is ordered by confidence
C17_Witness ==
    /\ outcome.op = "get_recommendations"
    /\ profiles[outcome.profile_key].interaction_history # <<>>
    /\ Len(outcome.recommendations) = 5
    /\ outcome.recommendations[1].confidence_score
          > outcome.recommendations[5].confidence_score
    /\ \E j, k \in DOMAIN outcome.recommendations :
          outcome.recommendations[j].theme # outcome.recommendations[k].theme

\* the step is update_profile_from_interaction or
\* process_interaction_emotions on a stored profile
IsStoreOpCall ==
    /\ clock' = clock + 1
    /\ outcome'.op \in {"update_profile_from_interaction",
                        "process_interaction_emotions"}

\* the operation of the step, and the store it would leave had the
\* operation other_op on the profile other_key been run before it and not
\* after it; time.time() is an input of each operation
StepOp == [kind |-> outcome'.op, interaction_data |-> outcome'.interaction_data]

OtherOpFirst(other_key, other_op) ==
    ApplyStoreOp(ApplyStoreOp(profiles, other_key, other_op, clock + 2),
                 outcome'.profile_key, StepOp, clock + 1)

\* C18: processing an interaction for one profile leaves every field of
\* every other stored profile as it was, and whole operations on two
\* different profiles give the same final state in either order.
C18_OtherProfilesUntouched ==
    [][IsStoreOpCall =>
         /\ DOMAIN profiles' = DOMAIN profiles
         /\ \A k \in DOMAIN profiles :
               k # outcome'.profile_key =>
                  /\ profiles'[k] = profiles[k]
                  /\ \A other_op \in StoreOps :
                        ApplyStoreOp(profiles', k, other_op, clock + 2)
                           = OtherOpFirst(k, other_op)]_vars

\* an operation on one profile while the other holds an interest graph,
\* emotions and achievements of its own
C18_Witness ==
    /\ outcome.op = "process_interaction_emotions"
    /\ Cardinality(DOMAIN profiles) = 2
    /\ \E k \in DOMAIN profiles :
          /\ k # outcome.profile_key
          /\ HasAttr(profiles[k], "interest_graph")
          /\ profiles[k].interaction_history # <<>>
          /\ HasAttr(profiles[outcome.profile_key], "emotion_metrics")
          /\ ~HasAttr(profiles[outcome.profile_key], "interest_graph")

(***************************************************************************)
(* Claims on the session beside the profile                                *)
(***************************************************************************)
\* the step is a call on the profile
IsProfileCall ==
    /\ clock' = clock + 1
    /\ outcome'.op \in {"update_profile_from_interaction",
                        "process_interaction_emotions"}

\* C19: a new session starts at EASY, in progress and without results,
\* whatever the difficulty level of the child's profile; process_answer
\* leaves the profile as it is and its result is fixed by the session and
\* the answer alone; a call on the profile leaves the session as it is.
C19_SessionAndProfileApart ==
    [][/\ outcome'.op = "create_story_session" =>
             /\ session'.difficulty_level = "EASY"
             /\ session'.status = "in_progress"
             /\ session'.question_results = <<>>
             /\ profile' = profile
       /\ outcome'.op = "process_answer" =>
             /\ profile' = profile
             /\ outcome'.error = "none" =>
                   \E user_answer \in UserAnswers :
                       session' = process_answer(session, user_answer)
       /\ IsProfileCall => session' = session]_vars

\* a session created for a child whose profile has risen above BEGINNER
C19_Witness ==
    /\ outcome.op = "create_story_session"
    /\ profile.difficulty_level > 1
    /\ HasAttr(profile, "emotion_metrics")
    /\ session.difficulty_level = "EASY"
    /\ session.question_results = <<>>

(***************************************************************************)
(* Claims on the question results                                          *)
(***************************************************************************)
\* C20: the k-th QuestionResult of a session has question_number k and
\* records the session difficulty in force when question k was generated,
\* which is the difficulty before the transition that answer k causes; the
\* results recorded before stay as they are.
C20_ResultRecordsDifficultyPosed ==
    [][outcome'.op = "process_answer" /\ outcome'.error = "none" =>
         /\ Len(session'.question_results) = Len(session.question_results) + 1
         /\ Last(session'.question_results).question_number =
               Len(session'.question_results)
         /\ Last(session'.question_results).difficulty_level =
               session.difficulty_level
         /\ Last(session'.question_results).difficulty_level =
               session.questions[Len(session'.question_results)].difficulty_level
         /\ \A k \in DOMAIN session.question_results :
               session'.question_results[k] = session.question_results[k]]_vars

\* three results, the second recorded at MEDIUM and the third at HARD,
\* numbered 1, 2, 3
C20_Witness ==
    /\ outcome.op = "process_answer"
    /\ Len(session.question_results) = 3
    /\ \A k \in 1..3 : session.question_results[k].question_number = k
    /\ session.question_results[1].difficulty_level = "EASY"
    /\ session.question_results[2].difficulty_level = "MEDIUM"
    /\ session.question_results[3].difficulty_level = "HARD"
    /\ session.questions[3].difficulty_level = "HARD"

(***************************************************************************)
(* enhanced_app.py : the records _process_story_response writes            *)
(***************************************************************************)
\* ScenarioA is a correct, quick answer at the end of a seven-minute
\* session; the others differ from it in one field each
WrongStory == [ScenarioA EXCEPT !.correct = FALSE]

SlowStory == [ScenarioA EXCEPT !.response_time = Num(40)]

ShortStory == [ScenarioA EXCEPT !.session_duration = 120]

StoryInteractions == {ScenarioA, WrongStory, SlowStory, ShortStory}

\* DifficultyLevel: a profile is constructed at BEGINNER by
\* get_or_create_profile and at INTERMEDIATE by multimodal_app.py; the
\* dataclass takes any member
DifficultyLevels == 1..4

StoryInit ==
    /\ session = create_story_session("dragons", "counting and addition")
    /\ showing_feedback = FALSE
    /\ outcome = NoCall
    /\ \E difficulty_level \in DifficultyLevels :
          profile = [ChildProfile(0) EXCEPT
                       !.difficulty_level = difficulty_level]
    /\ unlock_events = <<>>
    /\ clock = 0
    /\ profiles = <<>>
    /\ threads = [t \in Threads |-> IdleFrame]

\* _process_story_response: update_profile_from_interaction with the record
StoryProfileUpdate ==
    /\ clock < MaxStoryCalls
    /\ \E interaction_data \in StoryInteractions :
          \E r \in {update_profile_from_interaction(
                        profile, interaction_data, clock + 1)} :
             /\ profile' = r.profile
             /\ outcome' = [op |-> "update_profile_from_interaction",
                            error |-> r.error]
    /\ clock' = clock + 1
    /\ UNCHANGED <<session_vars, unlock_events, manager_vars>>

StoryNext == StoryProfileUpdate

StorySpec == StoryInit /\ [][StoryNext]_vars

(***************************************************************************)
(* Claims on the interest graph                                            *)
(***************************************************************************)
\* the step is a call of get_recommended_themes
IsThemesCall ==
    clock' = clock + 1 /\ outcome'.op = "get_recommended_themes"

\* the step is a call of update_interest_graph
IsInterestUpdate ==
    clock' = clock + 1 /\ outcome'.op = "update_interest_graph"

\* profile.interest_graph, empty when the attribute is not set
InterestGraph(p) ==
    IF HasAttr(p, "interest_graph") THEN p.interest_graph ELSE <<>>

\* C21: when the interest graph holds a single theme after
\* update_interest_graph, get_recommended_themes(profile, 1) returns that
\* theme alone, whatever the engagement score was, 0 included.
C21_SingleThemeRecommended ==
    [][/\ IsThemesCall
       /\ outcome'.num_recommendations = 1
       /\ Cardinality(DOMAIN InterestGraph(profile)) = 1
       => \A theme \in DOMAIN InterestGraph(profile) :
             outcome'.themes = <<theme>>]_vars

\* the only theme was entered with engagement 0 and is returned
C21_Witness ==
    /\ outcome.op = "get_recommended_themes"
    /\ outcome.num_recommendations = 1
    /\ DOMAIN InterestGraph(profile) = {"space"}
    /\ profile.interest_graph["space"] = 0
    /\ outcome.themes = <<"space">>

\* the list holds the themes of highest weight in descending order
HighestWeightFirst(themes, graph, n) ==
    /\ Len(themes) = Min(n, Cardinality(DOMAIN graph))
    /\ \A k \in DOMAIN themes : themes[k] \in DOMAIN graph
    /\ \A j, k \in DOMAIN themes : j < k =>
          /\ themes[j] # themes[k]
          /\ graph[themes[j]] >= graph[themes[k]]
    /\ \A t \in DOMAIN graph :
          (\A k \in DOMAIN themes : themes[k] # t) =>
             \A k \in DOMAIN themes : graph[t] <= graph[themes[k]]

\* C22: update_interest_graph sets the weight of the theme to
\* 0.8 * old + 0.2 * score (old is 0 for a new theme), multiplies the
\* weight of every other theme by 0.95, removes no theme and keeps the
\* weights at 0 or above; get_recommended_themes returns the n themes of
\* highest weight in descending order, or dragons, pirates, princesses when
\* the graph is empty.
C22_InterestGraphUpdate ==
    [][/\ IsInterestUpdate =>
            /\ DOMAIN InterestGraph(profile') =
                  DOMAIN InterestGraph(profile) \cup {outcome'.theme}
            /\ \A t \in DOMAIN InterestGraph(profile') :
                  /\ InterestGraph(profile')[t] >= 0
                  /\ InterestGraph(profile')[t] =
                        IF t = outcome'.theme
                        THEN (Get(InterestGraph(profile), t, 0) * 8) \div 10
                               + (outcome'.engagement_score * FP * 2) \div 100
                        ELSE (InterestGraph(profile)[t] * 95) \div 100
       /\ IsThemesCall =>
            IF DOMAIN InterestGraph(profile) = {}
            THEN outcome'.themes = <<"dragons", "pirates", "princesses">>
            ELSE HighestWeightFirst(outcome'.themes, InterestGraph(profile),
                                    outcome'.num_recommendations)]_vars

\* two of three themes are returned, the theme updated last among them and
\* the aged ones behind it
C22_Witness ==
    /\ outcome.op = "get_recommended_themes"
    /\ outcome.num_recommendations = 2
    /\ DOMAIN InterestGraph(profile) = InterestThemes
    /\ Len(outcome.themes) = 2
    /\ profile.interest_graph[outcome.themes[1]]
          > profile.interest_graph[outcome.themes[2]]
    /\ \E t \in InterestThemes :
          /\ profile.interest_graph[t] > 0
          /\ profile.interest_graph[t]
                < profile.interest_graph[outcome.themes[2]]

(***************************************************************************)
(* Claims on the recommendations                                           *)
(***************************************************************************)
\* the elements of a list
Elements(s) == {s[k] : k \in DOMAIN s}

\* C23: generate_recommendations returns at most 5 records; each pairs one
\* of the first 3 learning gaps with one of the top 2 themes; the
\* confidence scores do not increase along the list and none exceeds 1.0.
C23_RecommendationsBounded ==
    [][IsRecommendationCall =>
         /\ Len(outcome'.recommendations) <= 5
         /\ \A k \in DOMAIN outcome'.recommendations :
               /\ outcome'.recommendations[k].learning_focus \in
                     Elements(Head_n(_identify_learning_gaps(
                                         profiles[outcome'.profile_key]), 3))
               /\ outcome'.recommendations[k].theme \in
                     Elements(Head_n(get_recommended_themes(
                                         profiles[outcome'.profile_key], 3), 2))
               /\ outcome'.recommendations[k].confidence_score <= FP
               /\ k > 1 =>
                     outcome'.recommendations[k - 1].confidence_score
                        >= outcome'.recommendations[k].confidence_score]_vars

\* three recommendations at the cap of 1.0: the interest in the theme is
\* above 1/3, the focus is a gap and every answer was right
C23_Witness ==
    /\ outcome.op = "get_recommendations"
    /\ Len(outcome.recommendations) = 3
    /\ outcome.recommendations[1].confidence_score = FP
    /\ outcome.recommendations[1].learning_focus = "math"
    /\ outcome.recommendations[3].learning_focus = "problem_solving"
    /\ profiles[outcome.profile_key].interest_graph["dragons"] * 3 > FP

\* the step is a call of _identify_learning_gaps
IsGapsCall ==
    clock' = clock + 1 /\ outcome'.op = "_identify_learning_gaps"

\* no skill of the profile is below its age threshold
NoSkillBehind(p) ==
    /\ p.learning_metrics.math_level >= (p.age - 3) * FP
    /\ p.learning_metrics.vocabulary_level >= (p.age - 4) * FP
    /\ p.learning_metrics.problem_solving_level >= (p.age - 4) * FP

\* the skill of highest level, the first of math, vocabulary,
\* problem_solving among equals
HighestSkill(p) ==
    LET names == <<"math", "vocabulary", "problem_solving">>
        first == CHOOSE k \in 1..3 :
                    /\ \A j \in 1..3 : SkillLevels(p)[j] <= SkillLevels(p)[k]
                    /\ \A j \in 1..(k - 1) :
                          SkillLevels(p)[j] < SkillLevels(p)[k]
    IN  names[first]

\* C24: _identify_learning_gaps never returns an empty list; when no skill
\* is below its age threshold it returns one entry, the skill of highest
\* level, math before vocabulary before problem_solving among equals.
C24_GapsNeverEmpty ==
    [][IsGapsCall =>
         /\ outcome'.gaps # <<>>
         /\ NoSkillBehind(profile) =>
               outcome'.gaps = <<HighestSkill(profile)>>]_vars

\* no skill is behind and vocabulary and problem solving lead together:
\* vocabulary is returned
C24_Witness ==
    /\ outcome.op = "_identify_learning_gaps"
    /\ NoSkillBehind(profile)
    /\ profile.learning_metrics.vocabulary_level
          = profile.learning_metrics.problem_solving_level
    /\ profile.learning_metrics.vocabulary_level
          > profile.learning_metrics.math_level
    /\ outcome.gaps = <<"vocabulary">>

(***************************************************************************)
(* Claims on the interaction history                                       *)
(***************************************************************************)
\* the history of every profile the store held before the step is the same
\* after it
HistoriesKept ==
    \A k \in DOMAIN profiles :
        /\ k \in DOMAIN profiles'
        /\ profiles'[k].interaction_history = profiles[k].interaction_history

\* C25: interaction_history only grows at its end: an
\* update_profile_from_interaction call that returns appends its record to
\* the history of its profile and leaves the earlier records in place;
\* process_interaction_emotions, get_recommendations,
\* get_adaptive_story_parameters and get_or_create_profile change no
\* history.
C25_HistoryAppendOnly ==
    [][clock' = clock + 1 =>
         IF outcome'.op = "update_profile_from_interaction"
         THEN /\ outcome'.error = "none"
              /\ DOMAIN profiles' = DOMAIN profiles
              /\ \A k \in DOMAIN profiles :
                    profiles'[k].interaction_history =
                       IF k = outcome'.profile_key
                       THEN Append(profiles[k].interaction_history,
                                   outcome'.interaction_data)
                       ELSE profiles[k].interaction_history
         ELSE /\ outcome'.op \in {"process_interaction_emotions",
                                  "get_recommendations",
                                  "get_adaptive_story_parameters",
                                  "get_or_create_profile"}
              /\ HistoriesKept]_vars

\* story parameters are asked for a profile that holds two different
\* records and whose emotions were processed
C25_Witness ==
    /\ outcome.op = "get_adaptive_story_parameters"
    /\ Len(profiles[outcome.profile_key].interaction_history) = 2
    /\ profiles[outcome.profile_key].interaction_history[1] = VocabularyMiss
    /\ profiles[outcome.profile_key].interaction_history[2] = LovedMathStory
    /\ Len(outcome.adaptive_params.vocabulary_words) = 6

(***************************************************************************)
(* Claims on the difficulty of the three questions                         *)
(***************************************************************************)
\* the difficulty recorded with result k, and whether answer k was right
PosedAt(k) == session.question_results[k].difficulty_level

WasCorrect(k) == session.question_results[k].is_correct

\* C26: question 1 is posed at EASY; question 2 at MEDIUM when answer 1 was
\* correct and at EASY otherwise; question 3 at HARD when answers 1 and 2
\* were both correct, at MEDIUM when answer 1 was wrong and answer 2
\* correct, and at EASY otherwise; the difficulty the session ends with is
\* the one question 3 was posed at.
C26_DifficultyOfEachQuestion ==
    /\ Len(session.question_results) >= 1 => PosedAt(1) = "EASY"
    /\ Len(session.question_results) >= 2 =>
          PosedAt(2) = IF WasCorrect(1) THEN "MEDIUM" ELSE "EASY"
    /\ Len(session.question_results) >= 3 =>
          /\ PosedAt(3) =
                IF WasCorrect(1) /\ WasCorrect(2) THEN "HARD"
                ELSE IF ~WasCorrect(1) /\ WasCorrect(2) THEN "MEDIUM"
                ELSE "EASY"
          /\ session.difficulty_level = PosedAt(3)

\* a first answer right and a second one wrong bring question 3 back to
\* EASY, and a right third answer leaves the session there
C26_Witness ==
    /\ Len(session.question_results) = 3
    /\ WasCorrect(1) /\ ~WasCorrect(2) /\ WasCorrect(3)
    /\ PosedAt(2) = "MEDIUM"
    /\ PosedAt(3) = "EASY"
    /\ session.difficulty_level = "EASY"
    /\ session.status = "completed"

(***************************************************************************)
(* Claims on the parts, questions and answers of the app's session         *)
(***************************************************************************)
\* the numbers of answers, questions and parts of the session stay in step
PartsQuestionsAnswers ==
    /\ Len(session.question_results) <= Len(session.questions)
    /\ Len(session.questions) <= Min(3, Len(session.question_results) + 1)
    /\ Len(session.story_parts) = Len(session.questions)

\* a part is generated only when fewer than 3 answers exist and every
\* generated question is answered
GeneratesWhenNonePending ==
    outcome'.op = "generate_next_story_part" /\ session' # session =>
        /\ Len(session.question_results) < 3
        /\ Len(session.questions) = Len(session.question_results)

\* process_answer is called only with an unanswered generated question, and
\* leaves current_question at the number of answers
AnswersGeneratedQuestion ==
    outcome'.op = "process_answer" /\ session' # session =>
        /\ ~RaisesIndexError(session)
        /\ Len(session.question_results) + 1 \in DOMAIN session.questions
        /\ outcome'.error = "none"
        /\ session'.current_question = Len(session'.question_results)

\* C27: in the app's flow every state has
\* len(question_results) <= len(questions) <= min(3, len(question_results)+1)
\* and len(story_parts) = len(questions); a part is generated only when
\* fewer than 3 answers exist and no question is pending; process_answer is
\* called only when an unanswered generated question exists; after it
\* current_question equals len(question_results).
C27_SessionFlowInvariants ==
    /\ []PartsQuestionsAnswers
    /\ [][GeneratesWhenNonePending /\ AnswersGeneratedQuestion]_vars

\* the third answer has just been processed: three parts, three questions,
\* three answers
C27_Witness ==
    /\ outcome.op = "process_answer"
    /\ Len(session.question_results) = 3
    /\ Len(session.questions) = 3
    /\ Len(session.story_parts) = 3
    /\ session.current_question = 3

(***************************************************************************)
(* Claims on the records of the enhanced app                               *)
(***************************************************************************)
\* the record has the keys story_completed, engagement_score and
\* session_duration, and neither completed nor response_quality
CarriesStoryFields(i) ==
    /\ HasAttr(i, "story_completed")
    /\ HasAttr(i, "engagement_score")
    /\ HasAttr(i, "session_duration")
    /\ ~HasAttr(i, "completed")
    /\ ~HasAttr(i, "response_quality")

\* the engagement level analyze_performance computes during the call
EngagementOfCall ==
    _calculate_engagement_level(Tail_n(profile'.interaction_history, 3))

\* C28: with interaction records that carry story_completed,
\* engagement_score and session_duration, and so neither completed nor
\* response_quality, the engagement level of the difficulty adjuster is at
\* most 0.3 and update_profile_from_interaction leaves the difficulty level
\* at max(1, previous level - 1), never above the previous level.
C28_StoryRecordsLowerLevel ==
    [][(/\ IsUpdateCall
        /\ \A k \in DOMAIN profile'.interaction_history :
              CarriesStoryFields(profile'.interaction_history[k]))
         => /\ ~EngagementAbove(EngagementOfCall, 30)
            /\ outcome'.error = "none"
            /\ profile'.difficulty_level <= profile.difficulty_level
            /\ profile'.difficulty_level =
                  Max(1, profile.difficulty_level - 1)]_vars

\* a profile at EXPERT is back at INTERMEDIATE after two correct, quick
\* answers in seven-minute sessions
C28_Witness ==
    /\ outcome.op = "update_profile_from_interaction"
    /\ profile.interaction_history = <<ScenarioA, ScenarioA>>
    /\ CarriesStoryFields(ScenarioA)
    /\ profile.difficulty_level = 2

(***************************************************************************)
(* Claims on the achievement never_give_up                                 *)
(***************************************************************************)
\* C29: no sequence of interactions unlocks never_give_up: its predicate
\* needs challenges_overcome >= 3, and challenges_overcome is 0 in every
\* state, since nothing increments it.
C29_NeverGiveUpNeverUnlocked ==
    /\ ~InSeq("never_give_up", profile.achievements)
    /\ ~InSeq("never_give_up", unlock_events)
    /\ ~_check_achievement_criteria("never_give_up", profile)
    /\ HasAttr(profile, "achievement_stats") =>
          profile.achievement_stats.challenges_overcome = 0

\* three times a wrong answer was followed by a correct one, and other
\* achievements were unlocked on the way
C29_Witness ==
    /\ HasAttr(profile, "achievement_stats")
    /\ outcome.op = "check_for_new_achievements"
    /\ profile.achievement_stats.vocabulary_words_learned = 15
    /\ profile.achievement_stats.math_problems_solved = 3
    /\ profile.achievement_stats.current_streak = 1
    /\ profile.achievement_stats.challenges_overcome = 0
    /\ InSeq("first_story_complete", profile.achievements)
    /\ InSeq("vocabulary_builder", profile.achievements)

(***************************************************************************)
(* Claims on the progress of a session                                     *)
(***************************************************************************)
\* C30: a session whose posed questions are all answered is completed in
\* the end, after exactly 3 answers: generate_next_story_part always gives
\* a part and a question, so that generating parts never blocks progress.
C30_AnsweredSessionCompletes ==
    session.status = "in_progress" ~>
        (session.status = "completed" /\ Len(session.question_results) = 3)
====
